---- MODULE Spec2Model ----
(***************************************************************************)
(* Model of the Unbrowser Python client (clients/python/unbrowser).        *)
(* The state machine follows UnbrowserClient._request: one action starts a *)
(* call, one action is one pass of the retry loop, i.e. one physical       *)
(* network attempt answered by the environment, its classification and the *)
(* except clause that handles it.                                          *)
(* Four specifications share the variables:                                *)
(*   Spec        _request on a constructed client, every retry             *)
(*               configuration and every kind of answer;                   *)
(*   SpecFair    the same calls over fewer answers, with weak fairness of  *)
(*               the attempt step, for termination;                        *)
(*   SpecClient  the client from its construction on: the endpoint         *)
(*               methods, health(), close() and the with statement;        *)
(*   SpecMap     the to_dict and from_dict conversions of types.py on      *)
(*               bounded inputs.                                           *)
(***************************************************************************)
EXTENDS Integers, Sequences, FiniteSets, TLC

\* ------------------------------------------------------------------ bounds
\* Largest max_retries the model configures a client with.
MaxRetriesBound == 4
\* Number of _request calls made on one client.
MaxCalls == 2
\* Largest max_retries of the clients whose construction is modelled.
MaxClientRetries == 2
\* Number of endpoint calls made on one such client.
MaxClientCalls == 1
\* Largest number of entries of a batch response.
MaxBatch == 3

\* ------------------------------------------------------- program constants
DEFAULT_MAX_RETRIES == 3

\* --------------------------------------------------------------- sentinels
Absent == "<absent>"        \* a key missing from a JSON object
PyNone == "<None>"          \* Python None
NoneInt == << >>            \* Optional[int] None; <<n>> is the int n

\* ------------------------------------------------- environment input sets
Methods == {"GET", "POST", "DELETE"}

\* Exceptions the session call can raise.
ExcClasses == {"Timeout", "ConnectTimeout", "ConnectionError", "TooManyRedirects"}

Statuses == {200, 401, 403, 429, 500}

\* Retry-After header values, as character sequences.
HeaderValues == { << >>, <<"0">>, <<"1", "2">>, <<"a">> }

Headers == {[present |-> FALSE, value |-> << >>]}
             \cup {[present |-> TRUE, value |-> v] : v \in HeaderValues}

ServerCodes == {"INVALID_REQUEST", "INVALID_URL", "FORBIDDEN", "INTERNAL_ERROR"}
ServerMessages == {"m1", "m2"}
DataValues == {"d1"}

\* The "error" member of an envelope: missing, null, or an object whose code
\* and message may each be missing.
ErrorObjects == {[shape |-> "absent", code |-> Absent, message |-> Absent],
                 [shape |-> "null", code |-> Absent, message |-> Absent]}
                  \cup {[shape |-> "dict", code |-> c, message |-> m] :
                          c \in ServerCodes \cup {Absent},
                          m \in ServerMessages \cup {Absent}}

NoError == [shape |-> "absent", code |-> Absent, message |-> Absent]

\* Response bodies: not JSON at all, JSON that is not an object, or an envelope.
AllBodies == {[shape |-> "notjson", success |-> Absent, error |-> NoError, data |-> Absent],
           [shape |-> "notdict", success |-> Absent, error |-> NoError, data |-> Absent]}
            \cup {[shape |-> "dict", success |-> s, error |-> e, data |-> d] :
                    s \in {Absent, "true", "false"},
                    e \in ErrorObjects,
                    d \in DataValues \cup {Absent}}

NoHeader == [present |-> FALSE, value |-> << >>]
NoBody == [shape |-> "notjson", success |-> Absent, error |-> NoError, data |-> Absent]

ErrUrl == [shape |-> "dict", code |-> "INVALID_URL", message |-> "m1"]
ErrInternal == [shape |-> "dict", code |-> "INTERNAL_ERROR", message |-> "m2"]

\* The bodies sent under the statuses the client decides by the body: every
\* failure envelope without data, and the success envelopes and failure
\* envelopes with data for a few error members.
Bodies == {b \in AllBodies :
             \/ b.shape # "dict"
             \/ b.success = "true" /\ b.error \in {NoError, ErrInternal}
             \/ b.success # "true" /\ (b.data = Absent \/ b.error \in {ErrUrl, ErrInternal})}

\* The bodies sent under the statuses 429, 401 and 403.
ProbeBodies == {b \in AllBodies :
                  \/ b.shape = "notjson"
                  \/ b.success = "true" /\ b.error = NoError /\ b.data # Absent
                  \/ b.success = "false" /\ b.error \in {ErrUrl, ErrInternal} /\ b.data = Absent}

StatusDecided == {429, 401, 403}

\* What one physical attempt can meet: an exception of the session call, or
\* a response. Every Retry-After header is tried with the statuses decided
\* by the status alone, every body with the others.
Outcomes == {[kind |-> "exc", cls |-> c, status |-> 0, header |-> NoHeader, body |-> NoBody] :
               c \in ExcClasses}
              \cup {[kind |-> "resp", cls |-> "", status |-> s, header |-> h, body |-> b] :
                      s \in StatusDecided, h \in Headers, b \in ProbeBodies}
              \cup {[kind |-> "resp", cls |-> "", status |-> s, header |-> h, body |-> b] :
                      s \in Statuses \ StatusDecided,
                      h \in {NoHeader, [present |-> TRUE, value |-> <<"1", "2">>]},
                      b \in Bodies}

NoOutcome == [kind |-> "none", cls |-> "", status |-> 0, header |-> NoHeader, body |-> NoBody]

\* ---------------------------------------------------------- exceptions
\* An exception object: its class, and the attributes the class defines.
Exc(type, code, message, has_ra, ra) ==
    [type |-> type, code |-> code, message |-> message,
     has_retry_after |-> has_ra, retry_after |-> ra]

NoExc == Exc("", "", "", FALSE, NoneInt)

UnbrowserError(code, message) == Exc("UnbrowserError", code, message, FALSE, NoneInt)

AuthenticationError == Exc("AuthenticationError", "UNAUTHORIZED",
                           "Invalid or missing API key", FALSE, NoneInt)

RateLimitError(message, retry_after) ==
    Exc("RateLimitError", "RATE_LIMITED", message, TRUE, retry_after)

ValidationError(message) == Exc("ValidationError", "INVALID_REQUEST", message, FALSE, NoneInt)

\* An exception that is not part of the client's hierarchy.
ForeignError(type, message) == Exc(type, Absent, message, FALSE, NoneInt)

UnbrowserTypes == {"UnbrowserError", "AuthenticationError", "RateLimitError", "ValidationError"}

\* str(e) of an exception raised by the session call.
StrOf(cls) == "str(" \o cls \o ")"

\* Nothing counts as a timeout, so nothing is retried by the first clause.
IsTimeout_Never(cls) == FALSE

\* isinstance(e, requests.Timeout): ConnectTimeout derives from both
\* ConnectionError and Timeout.
IsTimeout(cls) == cls \in {"Timeout", "ConnectTimeout"}

\* isinstance(e, (requests.Timeout, requests.ConnectionError))
IsTimeoutOrConnection(cls) == cls \in {"Timeout", "ConnectTimeout", "ConnectionError"}

\* ------------------------------------------------------ pure functions
Digits == {"0", "1", "2", "3", "4", "5", "6", "7", "8", "9"}

DigitVal(c) ==
    CASE c = "0" -> 0 [] c = "1" -> 1 [] c = "2" -> 2 [] c = "3" -> 3
      [] c = "4" -> 4 [] c = "5" -> 5 [] c = "6" -> 6 [] c = "7" -> 7
      [] c = "8" -> 8 [] c = "9" -> 9

RECURSIVE DigitsVal(_)
DigitsVal(s) ==
    IF s = << >> THEN 0
    ELSE 10 * DigitsVal(SubSeq(s, 1, Len(s) - 1)) + DigitVal(s[Len(s)])

\* The digits of a numeral once an optional sign is removed.
Unsigned(s) == IF s # << >> /\ s[1] \in {"+", "-"} THEN Tail(s) ELSE s

\* int(s) succeeds: an optional sign followed by at least one decimal digit.
IntParses(s) == /\ Unsigned(s) # << >>
                /\ \A i \in 1..Len(Unsigned(s)) : Unsigned(s)[i] \in Digits

\* int(s), for a string int() accepts.
IntOf(s) == IF s # << >> /\ s[1] = "-" THEN 0 - DigitsVal(Unsigned(s))
            ELSE DigitsVal(Unsigned(s))

\* 2**n
RECURSIVE Pow2(_)
Pow2(n) == IF n <= 0 THEN 1 ELSE 2 * Pow2(n - 1)

\* What leaves the body of the try statement.
Return(value) == [kind |-> "return", value |-> value, exc |-> NoExc]
Raise(exc) == [kind |-> "raise", value |-> PyNone, exc |-> exc]
NoResult == [kind |-> "none", value |-> PyNone, exc |-> NoExc]

\* response.headers.get("Retry-After") is truthy
HeaderTruthy(h) == h.present /\ h.value # << >>

\* Status 429: the rate limit error, with the header parsed by int().
OnRateLimited(h) ==
    IF HeaderTruthy(h)
    THEN IF IntParses(h.value)
         THEN Raise(RateLimitError("Daily request limit exceeded", <<IntOf(h.value)>>))
         ELSE Raise(ForeignError("ValueError", "invalid literal for int()"))
    ELSE Raise(RateLimitError("Daily request limit exceeded", NoneInt))

\* A test that takes a body without the success key for a success.
SuccessFalsy_AbsentOk(b) == b.success = "false"

\* not result.get("success", False)
SuccessFalsy(b) == b.success # "true"

\* The message is never read from the envelope.
MessageOf_Default(e) == "Unknown error"

\* The code is never read from the envelope.
CodeOf_Default(e) == "UNKNOWN_ERROR"

\* error.get("code", "UNKNOWN_ERROR") and error.get("message", "Unknown error")
CodeOf(e) == IF e.code = Absent THEN "UNKNOWN_ERROR" ELSE e.code
MessageOf(e) == IF e.message = Absent THEN "Unknown error" ELSE e.message

\* result.get("data")
DataOf(b) == IF b.data = Absent THEN PyNone ELSE b.data

\* response.json() and the envelope check.
OnBody(b) ==
    IF b.shape = "notjson" THEN Raise(ForeignError("JSONDecodeError", "Expecting value"))
    ELSE IF b.shape = "notdict"
    THEN Raise(ForeignError("AttributeError", "object has no attribute 'get'"))
    ELSE IF SuccessFalsy(b)
    THEN IF b.error.shape = "null"
         THEN Raise(ForeignError("AttributeError", "'NoneType' object has no attribute 'get'"))
         ELSE Raise(UnbrowserError(CodeOf(b.error), MessageOf(b.error)))
    ELSE Return(DataOf(b))

\* The body of the try statement for one attempt that met outcome o.
InTry(o) ==
    IF o.kind = "exc" THEN Raise(ForeignError(o.cls, StrOf(o.cls)))
    ELSE IF o.status = 429 THEN OnRateLimited(o.header)
    ELSE IF o.status = 401 THEN Raise(AuthenticationError)
    ELSE IF o.status = 403
    THEN Raise(UnbrowserError("FORBIDDEN", "API key does not have access to this resource"))
    ELSE OnBody(o.body)

\* FORBIDDEN is missing from the list.
NoRetryCodes_NoForbidden == {"INVALID_REQUEST", "INVALID_URL"}

\* Only FORBIDDEN ends the call at once.
NoRetryCodes_OnlyForbidden == {"FORBIDDEN"}

\* The codes the third except clause re-raises without retrying.
NoRetryCodes == {"INVALID_REQUEST", "INVALID_URL", "FORBIDDEN"}

\* Handle without the second except clause: authentication and rate limit
\* errors fall into the clause for UnbrowserError and are retried like any
\* service error.
Handle_RetryAuth(e, attempt, attempts) ==
    IF IsTimeoutOrConnection(e.type)
    THEN IF IsTimeout(e.type) /\ attempt < attempts
         THEN [do |-> "retry", record |-> TRUE, exc |-> NoExc]
         ELSE [do |-> "raise", record |-> TRUE, exc |-> UnbrowserError("TIMEOUT", e.message)]
    ELSE IF e.type \in UnbrowserTypes
    THEN IF e.code \in NoRetryCodes
         THEN [do |-> "raise", record |-> FALSE, exc |-> e]
         ELSE IF attempt < attempts
         THEN [do |-> "retry", record |-> TRUE, exc |-> NoExc]
         ELSE [do |-> "raise", record |-> TRUE, exc |-> e]
    ELSE [do |-> "raise", record |-> FALSE, exc |-> e]

\* Handle that sleeps after the last pass too, and leaves the error to the
\* statement after the loop.
Handle_SleepAtLast(e, attempt, attempts) ==
    IF IsTimeoutOrConnection(e.type)
    THEN IF IsTimeout(e.type) /\ attempt <= attempts
         THEN [do |-> "retry", record |-> TRUE, exc |-> NoExc]
         ELSE [do |-> "raise", record |-> TRUE, exc |-> UnbrowserError("TIMEOUT", e.message)]
    ELSE IF e.type \in {"AuthenticationError", "RateLimitError", "ValidationError"}
    THEN [do |-> "raise", record |-> FALSE, exc |-> e]
    ELSE IF e.type = "UnbrowserError"
    THEN IF e.code \in NoRetryCodes
         THEN [do |-> "raise", record |-> FALSE, exc |-> e]
         ELSE IF attempt <= attempts
         THEN [do |-> "retry", record |-> TRUE, exc |-> NoExc]
         ELSE [do |-> "raise", record |-> TRUE, exc |-> e]
    ELSE [do |-> "raise", record |-> FALSE, exc |-> e]

\* The effect of the except clauses on an exception e raised in the try
\* body during pass `attempt` of `attempts`:
\*   "retry"  sleep, then continue with the next pass
\*   "raise"  the exception `exc` leaves _request
\* `record` tells whether last_error was assigned e.
Handle(e, attempt, attempts) ==
    IF IsTimeoutOrConnection(e.type)
    THEN IF IsTimeout(e.type) /\ attempt < attempts
         THEN [do |-> "retry", record |-> TRUE, exc |-> NoExc]
         ELSE [do |-> "raise", record |-> TRUE, exc |-> UnbrowserError("TIMEOUT", e.message)]
    ELSE IF e.type \in {"AuthenticationError", "RateLimitError", "ValidationError"}
    THEN [do |-> "raise", record |-> FALSE, exc |-> e]
    ELSE IF e.type = "UnbrowserError"
    THEN IF e.code \in NoRetryCodes
         THEN [do |-> "raise", record |-> FALSE, exc |-> e]
         ELSE IF attempt < attempts
         THEN [do |-> "retry", record |-> TRUE, exc |-> NoExc]
         ELSE [do |-> "raise", record |-> TRUE, exc |-> e]
    ELSE [do |-> "raise", record |-> FALSE, exc |-> e]

\* A linear delay.
Backoff_Linear(attempt) == 2 * attempt

\* time.sleep(2**attempt)
Backoff(attempt) == Pow2(attempt)

\* The retry switch is ignored.
AttemptBudget_IgnoreRetry(r, n) == n

\* attempts = self.max_retries if self.retry else 1
AttemptBudget(r, n) == IF r THEN n ELSE 1

\* After the for loop: raise last_error if one was recorded, else the
\* generic fallback.
AfterLoop(lastError) ==
    IF lastError # << >> THEN lastError[1]
    ELSE UnbrowserError("UNKNOWN_ERROR", "Request failed")

\* ------------------------------------------------ JSON and Python values
\* A value is a record tagged by t: JSON null / None, strings, integers,
\* booleans, lists, objects (a function from keys to values), enum members,
\* dataclass instances, and "err": an exception raised while evaluating.
JNull == [t |-> "null"]
JStr(x) == [t |-> "str", v |-> x]
JInt(n) == [t |-> "int", v |-> n]
JBool(b) == [t |-> "bool", v |-> b]
JFloat(n) == [t |-> "float", v |-> n]     \* the float n.0
JList(seq) == [t |-> "list", v |-> seq]
JObj(f) == [t |-> "obj", v |-> f]
JErr(e) == [t |-> "err", v |-> e]
EnumMember(cls, x) == [t |-> "enum", cls |-> cls, v |-> x]
EmptyDict == [k \in {} |-> JNull]

IsErr(j) == j.t = "err"

\* The first exception of a sequence of evaluated expressions, if any.
HasErr(vals) == \E i \in 1..Len(vals) : IsErr(vals[i])
FirstErr(vals) ==
    vals[CHOOSE i \in 1..Len(vals) :
            IsErr(vals[i]) /\ \A k \in 1..(i - 1) : ~IsErr(vals[k])]

\* bool(j)
Truthy(j) ==
    CASE j.t = "null" -> FALSE
      [] j.t = "str" -> j.v # ""
      [] j.t = "int" -> j.v # 0
      [] j.t = "float" -> j.v # 0
      [] j.t = "bool" -> j.v
      [] j.t = "list" -> j.v # << >>
      [] j.t = "obj" -> DOMAIN j.v # {}
      [] OTHER -> TRUE

\* j[k]
Sub(j, k) ==
    IF IsErr(j) THEN j
    ELSE IF j.t = "obj"
    THEN IF k \in DOMAIN j.v THEN j.v[k] ELSE JErr("KeyError")
    ELSE JErr("TypeError")

\* j.get(k, default)
GetD(j, k, default) ==
    IF IsErr(j) THEN j
    ELSE IF j.t = "obj"
    THEN IF k \in DOMAIN j.v THEN j.v[k] ELSE default
    ELSE JErr("AttributeError")

\* j.get(k)
Get(j, k) == GetD(j, k, JNull)

\* d[k] = v on a dict under construction
Put(f, k, val) == [x \in DOMAIN f \cup {k} |-> IF x = k THEN val ELSE f[x]]
PutIf(c, f, k, val) == IF c THEN Put(f, k, val) ELSE f

\* cls(name1=val1, ...): the arguments are evaluated in order, the first
\* exception wins.
Inst(cls, names, vals) ==
    IF HasErr(vals) THEN FirstErr(vals)
    ELSE [t |-> "inst", cls |-> cls,
          v |-> [n \in {names[i] : i \in 1..Len(names)} |->
                   vals[CHOOSE i \in 1..Len(names) : names[i] = n]]]

\* The items a comprehension over j visits, when j is a list.
Items(j) == IF ~IsErr(j) /\ j.t = "list" THEN j.v ELSE << >>

\* [F(x) for x in j], where out holds F(x) for the items of j: a list is
\* mapped; an empty string or dict gives the empty list; the items of a
\* non-empty string or dict are strings, which F cannot subscript; anything
\* else is not iterable.
ListComp(j, out) ==
    IF IsErr(j) THEN j
    ELSE IF j.t = "list"
    THEN IF HasErr(out) THEN FirstErr(out) ELSE JList(out)
    ELSE IF j.t \in {"str", "obj"} /\ ~Truthy(j) THEN JList(<< >>)
    ELSE JErr("TypeError")

\* Enum classes of types.py and the call Cls(value).
ContentTypeValues == {"markdown", "text", "html"}
CostTierValues == {"intelligence", "lightweight", "playwright"}
VerificationModeValues == {"basic", "standard", "thorough"}
ImportanceValues == {"critical", "important", "optional"}
DomainFamiliarityValues == {"high", "medium", "low", "none"}
ConfidenceRatingValues == {"high", "medium", "low"}

\* Any string is taken as a member.
EnumOf_Unchecked(cls, values, j) ==
    IF IsErr(j) THEN j
    ELSE IF j.t = "str" THEN EnumMember(cls, j.v)
    ELSE JErr("ValueError")

EnumOf(cls, values, j) ==
    IF IsErr(j) THEN j
    ELSE IF j.t = "str" /\ j.v \in values THEN EnumMember(cls, j.v)
    ELSE JErr("ValueError")

CostTier(j) == EnumOf("CostTier", CostTierValues, j)
ConfidenceRating(j) == EnumOf("ConfidenceRating", ConfidenceRatingValues, j)
Importance(j) == EnumOf("Importance", ImportanceValues, j)
DomainFamiliarity(j) == EnumOf("DomainFamiliarity", DomainFamiliarityValues, j)

\* X if c else None, where c is evaluated first
IfTruthy(c, x) == IF IsErr(c) THEN c ELSE IF Truthy(c) THEN x ELSE JNull

\* ----------------------------------------------- request serialization
\* obj.name of a dataclass instance
Attr(o, name) == o.v[name]

\* Cookie(name, value, domain, path), VerifyOptions(enabled, mode),
\* BrowseOptions(...) and SessionData(cookies, local_storage) instances.
Cookie(name, value, domain, path) ==
    [t |-> "inst", cls |-> "Cookie",
     v |-> [name |-> name, value |-> value, domain |-> domain, path |-> path]]

VerifyOptions(enabled, mode) ==
    [t |-> "inst", cls |-> "VerifyOptions", v |-> [enabled |-> enabled, mode |-> mode]]

BrowseOptions(ct, wfs, stl, mc, it, ml, mct, vf) ==
    [t |-> "inst", cls |-> "BrowseOptions",
     v |-> [content_type |-> ct, wait_for_selector |-> wfs, scroll_to_load |-> stl,
            max_chars |-> mc, include_tables |-> it, max_latency_ms |-> ml,
            max_cost_tier |-> mct, verify |-> vf]]

SessionData(cookies, local_storage) ==
    [t |-> "inst", cls |-> "SessionData",
     v |-> [cookies |-> cookies, local_storage |-> local_storage]]

\* member.value of an enum member
EnumValue(e) == JStr(e.v)

\* to_dict that tests max_chars for truth, as it does wait_for_selector.
OptionsToDict_DropZero(o) ==
    LET d1 == PutIf(Truthy(Attr(o, "content_type")), EmptyDict,
                    "contentType", EnumValue(Attr(o, "content_type")))
        d2 == PutIf(Truthy(Attr(o, "wait_for_selector")), d1,
                    "waitForSelector", Attr(o, "wait_for_selector"))
        d3 == PutIf(Truthy(Attr(o, "scroll_to_load")), d2,
                    "scrollToLoad", Attr(o, "scroll_to_load"))
        d4 == PutIf(Truthy(Attr(o, "max_chars")), d3, "maxChars", Attr(o, "max_chars"))
        d5 == PutIf(~Truthy(Attr(o, "include_tables")), d4, "includeTables", JBool(FALSE))
        d6 == PutIf(Attr(o, "max_latency_ms") # JNull, d5,
                    "maxLatencyMs", Attr(o, "max_latency_ms"))
        d7 == PutIf(Truthy(Attr(o, "max_cost_tier")), d6,
                    "maxCostTier", EnumValue(Attr(o, "max_cost_tier")))
        vf == Attr(o, "verify")
        d8 == PutIf(Truthy(vf), d7, "verify",
                    JObj(("enabled" :> Attr(vf, "enabled"))
                           @@ ("mode" :> EnumValue(Attr(vf, "mode")))))
    IN  JObj(d8)

\* BrowseOptions.to_dict
OptionsToDict(o) ==
    LET d1 == PutIf(Truthy(Attr(o, "content_type")), EmptyDict,
                    "contentType", EnumValue(Attr(o, "content_type")))
        d2 == PutIf(Truthy(Attr(o, "wait_for_selector")), d1,
                    "waitForSelector", Attr(o, "wait_for_selector"))
        d3 == PutIf(Truthy(Attr(o, "scroll_to_load")), d2,
                    "scrollToLoad", Attr(o, "scroll_to_load"))
        d4 == PutIf(Attr(o, "max_chars") # JNull, d3, "maxChars", Attr(o, "max_chars"))
        d5 == PutIf(~Truthy(Attr(o, "include_tables")), d4, "includeTables", JBool(FALSE))
        d6 == PutIf(Attr(o, "max_latency_ms") # JNull, d5,
                    "maxLatencyMs", Attr(o, "max_latency_ms"))
        d7 == PutIf(Truthy(Attr(o, "max_cost_tier")), d6,
                    "maxCostTier", EnumValue(Attr(o, "max_cost_tier")))
        vf == Attr(o, "verify")
        d8 == PutIf(Truthy(vf), d7, "verify",
                    JObj(("enabled" :> Attr(vf, "enabled"))
                           @@ ("mode" :> EnumValue(Attr(vf, "mode")))))
    IN  JObj(d8)

\* The dict built for one cookie in SessionData.to_dict.
CookieToDict(c) ==
    JObj(("name" :> Attr(c, "name")) @@ ("value" :> Attr(c, "value"))
           @@ ("domain" :> Attr(c, "domain")) @@ ("path" :> Attr(c, "path")))

\* SessionData.to_dict
SessionToDict(sd) ==
    LET cs == Attr(sd, "cookies")
        d1 == PutIf(Truthy(cs), EmptyDict, "cookies",
                    JList([i \in 1..Len(cs.v) |-> CookieToDict(cs.v[i])]))
        d2 == PutIf(Truthy(Attr(sd, "local_storage")), d1,
                    "localStorage", Attr(sd, "local_storage"))
    IN  JObj(d2)

\* The body built by browse and fetch (key "url") and by batch (key "urls");
\* options and session are None (JNull) or instances.
RequestBody(key, target, options, session) ==
    LET b1 == (key :> target)
        b2 == PutIf(Truthy(options), b1, "options", OptionsToDict(options))
        b3 == PutIf(Truthy(session), b2, "session", SessionToDict(session))
    IN  JObj(b3)

\* ---------------------------------------------------- response parsing
\* BrowseResult.from_dict
TableFromDict(x) ==
    Inst("TableData", <<"headers", "rows">>, <<Sub(x, "headers"), Sub(x, "rows")>>)

ApiFromDict(a) ==
    Inst("DiscoveredApi", <<"url", "method", "content_type">>,
         <<Sub(a, "url"), Sub(a, "method"), Sub(a, "contentType")>>)

CookieFromDict(c) ==
    Inst("Cookie", <<"name", "value", "domain", "path">>,
         <<Sub(c, "name"), Sub(c, "value"), Get(c, "domain"), GetD(c, "path", JStr("/"))>>)

VerificationFromDict(x) ==
    Inst("VerificationResult",
         <<"passed", "confidence", "checks_run", "errors", "warnings">>,
         <<Sub(x, "passed"), Sub(x, "confidence"), Sub(x, "checksRun"),
           Get(x, "errors"), Get(x, "warnings")>>)

BrowseResultFromDict(data) ==
    LET content == Inst("ContentResult", <<"markdown", "text", "html">>,
                        <<Sub(Sub(data, "content"), "markdown"),
                          Sub(Sub(data, "content"), "text"),
                          Get(Sub(data, "content"), "html")>>)
        metadata == Inst("BrowseMetadata", <<"load_time", "tier", "tiers_attempted">>,
                         <<Sub(Sub(data, "metadata"), "loadTime"),
                           Sub(Sub(data, "metadata"), "tier"),
                           Sub(Sub(data, "metadata"), "tiersAttempted")>>)
        tables == IfTruthy(Get(data, "tables"), ListComp(Sub(data, "tables"),
                    [i \in 1..Len(Items(Sub(data, "tables"))) |-> TableFromDict(Items(Sub(data, "tables"))[i])]))
        apis == IfTruthy(Get(data, "discoveredApis"),
                         ListComp(Sub(data, "discoveredApis"),
                    [i \in 1..Len(Items(Sub(data, "discoveredApis"))) |-> ApiFromDict(Items(Sub(data, "discoveredApis"))[i])]))
        cookies == IfTruthy(Get(data, "newCookies"),
                            ListComp(Sub(data, "newCookies"),
                    [i \in 1..Len(Items(Sub(data, "newCookies"))) |-> CookieFromDict(Items(Sub(data, "newCookies"))[i])]))
        verification == IfTruthy(Get(data, "verification"),
                                 VerificationFromDict(Sub(data, "verification")))
    IN  Inst("BrowseResult",
             <<"content", "metadata", "tables", "discovered_apis", "new_cookies",
               "verification", "url", "final_url", "title">>,
             <<content, metadata, tables, apis, cookies, verification,
               Sub(data, "url"), Sub(data, "finalUrl"), Sub(data, "title")>>)

\* BatchResult.from_dict
\* The data of every item is parsed, also of an item that has none.
BatchItemFromDict_Strict(r) ==
    Inst("BatchResultItem", <<"url", "success", "data", "error">>,
         <<Sub(r, "url"), Sub(r, "success"),
           BrowseResultFromDict(Sub(r, "data")),
           Get(r, "error")>>)

BatchItemFromDict(r) ==
    Inst("BatchResultItem", <<"url", "success", "data", "error">>,
         <<Sub(r, "url"), Sub(r, "success"),
           IfTruthy(Get(r, "data"), BrowseResultFromDict(Sub(r, "data"))),
           Get(r, "error")>>)

BatchResultFromDict(data) ==
    Inst("BatchResult", <<"results", "total_time">>,
         <<ListComp(Sub(data, "results"),
                    [i \in 1..Len(Items(Sub(data, "results"))) |-> BatchItemFromDict(Items(Sub(data, "results"))[i])]), Sub(data, "totalTime")>>)

\* ExecutionStep.from_dict
ExecutionStepFromDict(data) ==
    Inst("ExecutionStep",
         <<"order", "action", "description", "tier", "expected_duration",
           "confidence", "reason">>,
         <<Sub(data, "order"), Sub(data, "action"), Sub(data, "description"),
           CostTier(Sub(data, "tier")), Sub(data, "expectedDuration"),
           ConfidenceRating(Sub(data, "confidence")), Get(data, "reason")>>)

\* ConfidenceFactors.from_dict and ConfidenceLevel.from_dict
ConfidenceFactorsFromDict(data) ==
    Inst("ConfidenceFactors",
         <<"has_learned_patterns", "domain_familiarity", "api_discovered",
           "requires_auth", "bot_detection_likely", "skills_available",
           "pattern_count", "pattern_success_rate">>,
         <<Sub(data, "hasLearnedPatterns"), DomainFamiliarity(Sub(data, "domainFamiliarity")),
           Sub(data, "apiDiscovered"), Sub(data, "requiresAuth"),
           Sub(data, "botDetectionLikely"), Sub(data, "skillsAvailable"),
           Sub(data, "patternCount"), Sub(data, "patternSuccessRate")>>)

ConfidenceLevelFromDict(data) ==
    Inst("ConfidenceLevel", <<"overall", "factors">>,
         <<ConfidenceRating(Sub(data, "overall")),
           ConfidenceFactorsFromDict(Sub(data, "factors"))>>)

\* WorkflowStep.from_dict
WorkflowStepFromDict(data) ==
    Inst("WorkflowStep",
         <<"step_number", "action", "description", "importance", "success",
           "url", "user_annotation", "tier", "duration">>,
         <<Sub(data, "stepNumber"), Sub(data, "action"), Sub(data, "description"),
           Importance(Sub(data, "importance")), Sub(data, "success"),
           Get(data, "url"), Get(data, "userAnnotation"),
           IfTruthy(Get(data, "tier"), CostTier(Sub(data, "tier"))),
           Get(data, "duration")>>)

\* ExecutionPlan.from_dict: the steps, then the fallback plan, then the tier.
RECURSIVE ExecutionPlanFromDict(_)
ExecutionPlanFromDict(data) ==
    Inst("ExecutionPlan", <<"steps", "fallback_plan", "tier", "reasoning">>,
         <<ListComp(Sub(data, "steps"),
                    [i \in 1..Len(Items(Sub(data, "steps"))) |-> ExecutionStepFromDict(Items(Sub(data, "steps"))[i])]),
           IfTruthy(Get(data, "fallbackPlan"),
                    ExecutionPlanFromDict(Sub(data, "fallbackPlan"))),
           CostTier(Sub(data, "tier")), Sub(data, "reasoning")>>)

\* TimeEstimate.from_dict
TimeEstimateFromDict(data) ==
    Inst("TimeEstimate", <<"min", "max", "expected", "breakdown">>,
         <<Sub(data, "min"), Sub(data, "max"), Sub(data, "expected"),
           Sub(data, "breakdown")>>)

\* BrowsePreview.from_dict
BrowsePreviewFromDict(data) ==
    Inst("BrowsePreview",
         <<"alternative_plans", "schema_version", "plan", "estimated_time", "confidence">>,
         <<IfTruthy(Get(data, "alternativePlans"),
                    ListComp(Sub(data, "alternativePlans"),
                    [i \in 1..Len(Items(Sub(data, "alternativePlans"))) |-> ExecutionPlanFromDict(Items(Sub(data, "alternativePlans"))[i])])),
           Sub(data, "schemaVersion"),
           ExecutionPlanFromDict(Sub(data, "plan")),
           TimeEstimateFromDict(Sub(data, "estimatedTime")),
           ConfidenceLevelFromDict(Sub(data, "confidence"))>>)

\* DomainIntelligence.from_dict
DomainIntelligenceFromDict(data) ==
    Inst("DomainIntelligence",
         <<"domain", "known_patterns", "selector_chains", "validators",
           "pagination_patterns", "recent_failures", "success_rate", "domain_group",
           "recommended_wait_strategy", "should_use_session">>,
         <<Sub(data, "domain"), GetD(data, "knownPatterns", JInt(0)),
           GetD(data, "selectorChains", JInt(0)), GetD(data, "validators", JInt(0)),
           GetD(data, "paginationPatterns", JInt(0)),
           GetD(data, "recentFailures", JInt(0)),
           GetD(data, "successRate", JFloat(0)), Get(data, "domainGroup"),
           GetD(data, "recommendedWaitStrategy", JStr("load")),
           GetD(data, "shouldUseSession", JBool(FALSE))>>)

\* WorkflowInfo.from_dict
WorkflowInfoFromDict(data) ==
    Inst("WorkflowInfo",
         <<"id", "name", "description", "domain", "tags", "steps", "version",
           "usage_count", "success_rate", "created_at", "updated_at">>,
         <<Sub(data, "id"), Sub(data, "name"), Sub(data, "description"),
           Sub(data, "domain"), GetD(data, "tags", JList(<< >>)), Sub(data, "steps"),
           Sub(data, "version"), GetD(data, "usageCount", JInt(0)),
           GetD(data, "successRate", JFloat(0)), Sub(data, "createdAt"),
           Sub(data, "updatedAt")>>)

\* WorkflowDetails.from_dict: the steps are parsed first.
WorkflowDetailsFromDict(data) ==
    Inst("WorkflowDetails",
         <<"steps", "id", "name", "description", "domain", "tags", "version",
           "usage_count", "success_rate", "skill_id", "created_at", "updated_at">>,
         <<ListComp(Sub(data, "steps"),
                    [i \in 1..Len(Items(Sub(data, "steps"))) |-> WorkflowStepFromDict(Items(Sub(data, "steps"))[i])]),
           Sub(data, "id"), Sub(data, "name"), Sub(data, "description"),
           Sub(data, "domain"), GetD(data, "tags", JList(<< >>)), Sub(data, "version"),
           GetD(data, "usageCount", JInt(0)), GetD(data, "successRate", JFloat(0)),
           Get(data, "skillId"), Sub(data, "createdAt"), Sub(data, "updatedAt")>>)

\* ReplayResult.from_dict
ReplayStepFromDict(r) ==
    Inst("ReplayStepResult", <<"step_number", "success", "duration", "tier", "error">>,
         <<Sub(r, "stepNumber"), Sub(r, "success"), Sub(r, "duration"),
           IfTruthy(Get(r, "tier"), CostTier(Sub(r, "tier"))), Get(r, "error")>>)

ReplayResultFromDict(data) ==
    Inst("ReplayResult", <<"results", "workflow_id", "overall_success", "total_duration">>,
         <<ListComp(Sub(data, "results"),
                    [i \in 1..Len(Items(Sub(data, "results"))) |-> ReplayStepFromDict(Items(Sub(data, "results"))[i])]),
           Sub(data, "workflowId"), Sub(data, "overallSuccess"),
           Sub(data, "totalDuration")>>)

\* ----------------------------------------------------- client constants
DEFAULT_BASE_URL == <<"https://api.unbrowser.ai">>
DEFAULT_TIMEOUT == 60
USER_AGENT == "unbrowser-python/0.1.0"

\* ------------------------------------------------- constructor arguments
\* API keys, as character sequences.
ValidKey == <<"u", "b", "_", "k">>
Keys == { << >>, <<"u", "b", "_">>, ValidKey, <<"k", "e", "y">>, <<"u", "b">>,
          <<"x", "u", "b", "_">>, <<"U", "B", "_">> }

\* Base URLs, as sequences of pieces; << >> is None or "".
BaseUrls == { << >>, <<"https://h", "/", "/">> }
Timeouts == {5, DEFAULT_TIMEOUT}

\* The arguments of the constructor: every key with the defaults of the
\* other arguments, and the valid key with every retry configuration under
\* the default and under another base URL and timeout.
CtorArgs ==
    {[key |-> k, base_url |-> << >>, timeout |-> DEFAULT_TIMEOUT, retry |-> TRUE,
      max_retries |-> MaxClientRetries] : k \in Keys}
      \cup {[key |-> ValidKey, base_url |-> bt[1], timeout |-> bt[2], retry |-> r,
              max_retries |-> n] :
               bt \in {<<b, DEFAULT_TIMEOUT>> : b \in BaseUrls} \cup {<<<< >>, t>> : t \in Timeouts},
               r \in BOOLEAN, n \in 0..MaxClientRetries}

\* s.startswith(p)
StartsWith(s, p) == Len(s) >= Len(p) /\ SubSeq(s, 1, Len(p)) = p

\* s.rstrip("/")
RECURSIVE RStrip(_)
RStrip(s) == IF s # << >> /\ s[Len(s)] = "/" THEN RStrip(SubSeq(s, 1, Len(s) - 1)) ELSE s

\* (base_url or DEFAULT_BASE_URL).rstrip("/")
BaseUrlOf(b) == RStrip(IF b = << >> THEN DEFAULT_BASE_URL ELSE b)

\* The headers the constructor puts on the session.
SessionHeaders(key) ==
    [content_type |-> "application/json",
     authorization |-> <<"Bearer ">> \o key,
     user_agent |-> USER_AGENT]

\* requests.get without headers of the client.
NoHeaders == [content_type |-> "", authorization |-> << >>, user_agent |-> ""]

NoSession == [state |-> "none", headers |-> NoHeaders, closers |-> << >>]
OpenSession(key) == [state |-> "open", headers |-> SessionHeaders(key), closers |-> << >>]

\* self._session.close(), called by `who`
Closed(s, who) == [s EXCEPT !.state = "closed", !.closers = Append(@, who)]

\* How UnbrowserClient(api_key=key, ...) ended: r is what left __init__.
Constructed(key, r) == [kind |-> r.kind, exc |-> r.exc, key |-> key]
NoCtor == [kind |-> "none", exc |-> NoExc, key |-> << >>]

\* The two checks of the constructor on api_key.
KeyCheck_NoPrefix(key) ==
    IF key = << >> THEN Raise(ValidationError("api_key is required"))
    ELSE Return(PyNone)

KeyCheck(key) ==
    IF key = << >> THEN Raise(ValidationError("api_key is required"))
    ELSE IF ~StartsWith(key, <<"u", "b", "_">>)
    THEN Raise(ValidationError("Invalid API key format. Must start with 'ub_'"))
    ELSE Return(PyNone)

\* ------------------------------------------------------------ endpoints
\* The endpoint methods that go through _request: HTTP method, path and
\* the parser applied to the returned data ("" for none).
Endpoints == {"browse", "preview_browse", "fetch", "batch", "get_domain_intelligence",
              "get_usage", "replay_workflow", "get_workflow", "delete_workflow"}

EndpointMethod(ep) ==
    CASE ep \in {"browse", "preview_browse", "fetch", "batch", "replay_workflow"} -> "POST"
      [] ep \in {"get_domain_intelligence", "get_usage", "get_workflow"} -> "GET"
      [] ep = "delete_workflow" -> "DELETE"

EndpointPath(ep) ==
    CASE ep = "browse" -> "/v1/browse"
      [] ep = "preview_browse" -> "/v1/browse/preview"
      [] ep = "fetch" -> "/v1/fetch"
      [] ep = "batch" -> "/v1/batch"
      [] ep = "get_domain_intelligence" -> "/v1/domains/{domain}/intelligence"
      [] ep = "get_usage" -> "/v1/usage"
      [] ep = "replay_workflow" -> "/v1/workflows/{workflow_id}/replay"
      [] ep = "get_workflow" -> "/v1/workflows/{workflow_id}"
      [] ep = "delete_workflow" -> "/v1/workflows/{workflow_id}"

\* The statement `return X.from_dict(data)` of the endpoint, or `return data`.
ParseData(ep, data) ==
    CASE ep \in {"browse", "fetch"} -> BrowseResultFromDict(data)
      [] ep = "preview_browse" -> BrowsePreviewFromDict(data)
      [] ep = "batch" -> BatchResultFromDict(data)
      [] ep = "get_domain_intelligence" -> DomainIntelligenceFromDict(data)
      [] ep = "replay_workflow" -> ReplayResultFromDict(data)
      [] ep = "get_workflow" -> WorkflowDetailsFromDict(data)
      [] OTHER -> data

\* ------------------------------------------------------ response data
\* {k1: v1, ...}
Dict(names, vals) ==
    JObj([n \in {names[i] : i \in 1..Len(names)} |->
            vals[CHOOSE i \in 1..Len(names) : names[i] = n]])

\* d without key k
Without(d, k) == JObj([x \in (DOMAIN d.v) \ {k} |-> d.v[x]])

\* d with key k set to val
With(d, k, val) == JObj(Put(d.v, k, val))

\* Values a server may send in a tier field, recognized or not, and falsy.
TierInputs == {JStr("intelligence"), JStr("playwright"), JStr("warp"), JStr(""), JNull}
RatingInputs == {JStr("high"), JStr("certain")}
ImportanceInputs == {JStr("critical"), JStr("vital"), JNull}
FamiliarityInputs == {JStr("none"), JStr("expert")}
ContentTypeInputs == {JStr("application/json"), JStr("markdown")}

\* The data of a browse or fetch response.
BrowseJson(tier, apis) ==
    Dict(<<"url", "finalUrl", "title", "content", "metadata", "discoveredApis">>,
         <<JStr("u"), JStr("u2"), JStr("T"),
           Dict(<<"markdown", "text">>, <<JStr("# T"), JStr("T")>>),
           Dict(<<"loadTime", "tier", "tiersAttempted">>,
                <<JInt(120), tier, JList(<<tier>>)>>),
           apis>>)

ApiJson(ct) ==
    Dict(<<"url", "method", "contentType">>, <<JStr("a"), JStr("GET"), ct>>)

BrowseOk == Without(BrowseJson(JStr("intelligence"), JNull), "discoveredApis")

BrowseInputs ==
    {BrowseJson(t, JNull) : t \in TierInputs}
      \cup {BrowseJson(JStr("lightweight"), JList(<<ApiJson(ct)>>)) : ct \in ContentTypeInputs}
      \cup {BrowseOk, Without(BrowseOk, "title"), Without(BrowseOk, "metadata"),
            With(BrowseOk, "newCookies", JList(<<Dict(<<"name", "value">>,
                                                      <<JStr("n"), JStr("v")>>)>>)),
            JNull}

\* One entry of data.results of a batch response: a successful item with
\* data, a failed item with an error and no data, a failed item whose data
\* is null.
ErrorJson == Dict(<<"code", "message">>, <<JStr("BROWSE_ERROR"), JStr("failed")>>)

BatchItems ==
    {Dict(<<"url", "success", "data">>, <<JStr("ok1"), JBool(TRUE), BrowseOk>>),
     Dict(<<"url", "success", "error">>, <<JStr("bad1"), JBool(FALSE), ErrorJson>>),
     Dict(<<"url", "success", "data", "error">>,
          <<JStr("bad2"), JBool(FALSE), JNull, ErrorJson>>)}

BatchJson(items) == Dict(<<"results", "totalTime">>, <<JList(items), JInt(7)>>)

SeqsUpTo(S, n) == UNION {[1..k -> S] : k \in 0..n}

BatchInputs ==
    {BatchJson(items) : items \in SeqsUpTo(BatchItems, MaxBatch)}
      \cup {Dict(<<"results">>, <<JList(<< >>)>>), JNull}

\* The data of the plan preview: steps, plans, estimates and confidence.
StepJson(tier, rating) ==
    Dict(<<"order", "action", "description", "tier", "expectedDuration", "confidence">>,
         <<JInt(1), JStr("fetch"), JStr("d"), tier, JInt(50), rating>>)

StepInputs == {StepJson(t, r) : t \in TierInputs, r \in RatingInputs}
                \cup {Without(StepJson(JStr("playwright"), JStr("low")), "tier")}

PlanJson(stepTier, tier, fallback) ==
    Dict(<<"steps", "tier", "reasoning", "fallbackPlan">>,
         <<JList(<<StepJson(stepTier, JStr("high"))>>), tier, JStr("r"), fallback>>)

PlanInputs ==
    {PlanJson(s, t, JNull) : s, t \in TierInputs}
      \cup {PlanJson(JStr("intelligence"), JStr("intelligence"),
                     PlanJson(JStr("playwright"), t, JNull)) : t \in TierInputs}

FactorsJson(fam) ==
    Dict(<<"hasLearnedPatterns", "domainFamiliarity", "apiDiscovered", "requiresAuth",
           "botDetectionLikely", "skillsAvailable", "patternCount", "patternSuccessRate">>,
         <<JBool(TRUE), fam, JBool(FALSE), JBool(FALSE), JBool(FALSE), JBool(TRUE),
           JInt(3), JFloat(1)>>)

LevelJson(overall, fam) ==
    Dict(<<"overall", "factors">>, <<overall, FactorsJson(fam)>>)

LevelInputs == {LevelJson(r, f) : r \in RatingInputs, f \in FamiliarityInputs}

EstimateJson ==
    Dict(<<"min", "max", "expected", "breakdown">>,
         <<JInt(1), JInt(9), JInt(5), Dict(<<"fetch">>, <<JInt(5)>>)>>)

PreviewJson(plan, level) ==
    Dict(<<"schemaVersion", "plan", "estimatedTime", "confidence">>,
         <<JStr("1.0"), plan, EstimateJson, level>>)

PreviewOk == PreviewJson(PlanJson(JStr("intelligence"), JStr("intelligence"), JNull),
                         LevelJson(JStr("high"), JStr("none")))

PreviewInputs ==
    {PreviewJson(p, LevelJson(JStr("high"), JStr("none"))) :
        p \in {PlanJson(JStr("intelligence"), t, JNull) : t \in TierInputs}}
      \cup {PreviewJson(PlanJson(JStr("intelligence"), JStr("intelligence"), JNull), l) :
              l \in LevelInputs}
      \cup {JNull}

\* The data of the workflow endpoints.
WorkflowStepJson(importance, tier) ==
    Dict(<<"stepNumber", "action", "description", "importance", "success", "tier">>,
         <<JInt(1), JStr("browse"), JStr("d"), importance, JBool(TRUE), tier>>)

WorkflowStepInputs ==
    {WorkflowStepJson(i, t) : i \in ImportanceInputs, t \in TierInputs}
      \cup {Without(WorkflowStepJson(i, JNull), "tier") : i \in ImportanceInputs}

WorkflowJson(steps) ==
    Dict(<<"id", "name", "description", "domain", "version", "steps",
           "createdAt", "updatedAt">>,
         <<JStr("w1"), JStr("n"), JStr("d"), JStr("example.com"), JInt(1), JList(steps),
           JStr("c"), JStr("u")>>)

WorkflowOk == WorkflowJson(<<WorkflowStepJson(JStr("critical"), JStr("playwright"))>>)

\* d with one of the keys present and null
Nulled(d, keys) == {With(d, k, JNull) : k \in keys}

WorkflowInputs ==
    {WorkflowJson(<<s>>) : s \in WorkflowStepInputs} \cup {WorkflowJson(<< >>), JNull}
    \cup Nulled(WorkflowOk, {"tags", "usageCount", "successRate", "skillId"})

WorkflowInfoOk ==
    Dict(<<"id", "name", "description", "domain", "steps", "version", "createdAt",
           "updatedAt", "tags">>,
         <<JStr("w1"), JStr("n"), JStr("d"), JStr("example.com"), JInt(2), JInt(1),
           JStr("c"), JStr("u"), JList(<<JStr("t")>>)>>)

WorkflowInfoInputs ==
    {WorkflowInfoOk, Without(WorkflowInfoOk, "tags"), Without(WorkflowInfoOk, "id"), JNull}
    \cup Nulled(WorkflowInfoOk, {"tags", "usageCount", "successRate"})

ReplayStepJson(tier) ==
    Dict(<<"stepNumber", "success", "duration", "tier">>,
         <<JInt(1), JBool(TRUE), JInt(10), tier>>)

ReplayJson(steps) ==
    Dict(<<"workflowId", "overallSuccess", "totalDuration", "results">>,
         <<JStr("w1"), JBool(TRUE), JInt(10), JList(steps)>>)

ReplayOk == ReplayJson(<<ReplayStepJson(JStr("lightweight"))>>)

ReplayInputs ==
    {ReplayJson(<<ReplayStepJson(t)>>) : t \in TierInputs}
      \cup {ReplayJson(<<Without(ReplayStepJson(JNull), "tier")>>), JNull}

DomainOk == Dict(<<"domain", "knownPatterns">>, <<JStr("example.com"), JInt(4)>>)
DomainInputs == {DomainOk, Dict(<<"domain">>, <<JStr("example.com")>>),
                 Dict(<<"knownPatterns">>, <<JInt(4)>>), JNull}
                \cup Nulled(DomainOk, {"knownPatterns", "successRate", "domainGroup",
                                       "recommendedWaitStrategy", "shouldUseSession"})

UsageOk == Dict(<<"requests">>, <<JInt(10)>>)

\* ------------------------------------------------------- request inputs
NoCookieDomain == Cookie(JStr("sid"), JStr("1"), JNull, JStr("/"))
FullCookie == Cookie(JStr("tok"), JStr("2"), JStr("example.com"), JStr("/app"))

CookieLists == {JList(<< >>), JList(<<FullCookie>>), JList(<<NoCookieDomain>>),
                JList(<<FullCookie, NoCookieDomain>>)}

LocalStorages == {JObj(EmptyDict), Dict(<<"k">>, <<JStr("v")>>)}

SessionInputs == {SessionData(c, l) : c \in CookieLists, l \in LocalStorages}

OptionInputs ==
    {BrowseOptions(ct, wfs, stl, mc, it, ml, mct, vf) :
        ct \in {EnumMember("ContentType", "markdown"), EnumMember("ContentType", "html"),
                JNull},
        wfs \in {JNull, JStr(".main"), JStr("")},
        stl \in {JBool(FALSE), JBool(TRUE)},
        mc \in {JNull, JInt(0), JInt(100)},
        it \in {JBool(TRUE), JBool(FALSE)},
        ml \in {JNull, JInt(500)},
        mct \in {JNull, EnumMember("CostTier", "lightweight")},
        vf \in {JNull, VerifyOptions(JBool(TRUE), EnumMember("VerificationMode", "basic")),
                VerifyOptions(JBool(FALSE), EnumMember("VerificationMode", "thorough"))}}

\* The arguments of browse, fetch and batch: the options and session are
\* None or given; every combination with the default options, and every
\* options value without a session.
BodyInputs ==
    {[key |-> k, target |-> t, options |-> o, session |-> s] :
        k \in {"url"}, t \in {JStr("https://example.com")},
        o \in OptionInputs \cup {JNull}, s \in {JNull, SessionData(JList(<<FullCookie>>), JObj(EmptyDict))}}
      \cup {[key |-> "urls", target |-> JList(<<JStr("a"), JStr("b")>>), options |-> o, session |-> s] :
              o \in {JNull, BrowseOptions(EnumMember("ContentType", "markdown"), JNull,
                                          JBool(FALSE), JNull, JBool(TRUE), JNull, JNull, JNull)},
              s \in SessionInputs \cup {JNull}}

\* The conversions of types.py: what is converted, and by which function.
ParseOps == {"browse", "batch", "execution_step", "plan", "confidence_level", "preview",
             "workflow_step", "workflow", "replay", "domain", "workflow_info"}

MapInputs(op) ==
    CASE op = "body" -> BodyInputs
      [] op = "browse" -> BrowseInputs
      [] op = "batch" -> BatchInputs
      [] op = "execution_step" -> StepInputs
      [] op = "plan" -> PlanInputs
      [] op = "confidence_level" -> LevelInputs
      [] op = "preview" -> PreviewInputs
      [] op = "workflow_step" -> WorkflowStepInputs
      [] op = "workflow" -> WorkflowInputs
      [] op = "replay" -> ReplayInputs
      [] op = "domain" -> DomainInputs
      [] op = "workflow_info" -> WorkflowInfoInputs

Convert(op, x) ==
    CASE op = "body" -> RequestBody(x.key, x.target, x.options, x.session)
      [] op = "browse" -> BrowseResultFromDict(x)
      [] op = "batch" -> BatchResultFromDict(x)
      [] op = "execution_step" -> ExecutionStepFromDict(x)
      [] op = "plan" -> ExecutionPlanFromDict(x)
      [] op = "confidence_level" -> ConfidenceLevelFromDict(x)
      [] op = "preview" -> BrowsePreviewFromDict(x)
      [] op = "workflow_step" -> WorkflowStepFromDict(x)
      [] op = "workflow" -> WorkflowDetailsFromDict(x)
      [] op = "replay" -> ReplayResultFromDict(x)
      [] op = "domain" -> DomainIntelligenceFromDict(x)
      [] op = "workflow_info" -> WorkflowInfoFromDict(x)

NoConv == [op |-> "", input |-> JNull, output |-> JNull, done |-> FALSE]

\* The data a server sends: Payload(ep, d) is the JSON value the token d of
\* a response body stands for in an answer to endpoint ep. "ok" is a well
\* formed answer for the endpoint, "partial" an object that lacks fields,
\* None a missing data member; any other token is an opaque string.
BatchMixed == BatchJson(<<Dict(<<"url", "success", "data">>,
                               <<JStr("ok1"), JBool(TRUE), BrowseOk>>),
                          Dict(<<"url", "success", "error">>,
                               <<JStr("bad1"), JBool(FALSE), ErrorJson>>)>>)

Payload(ep, d) ==
    CASE d = PyNone -> JNull
      [] d = "partial" -> Dict(<<"url">>, <<JStr("u")>>)
      [] d = "ok" /\ ep \in {"browse", "fetch"} -> BrowseOk
      [] d = "ok" /\ ep = "preview_browse" -> PreviewOk
      [] d = "ok" /\ ep = "batch" -> BatchMixed
      [] d = "ok" /\ ep = "get_domain_intelligence" -> DomainOk
      [] d = "ok" /\ ep = "get_usage" -> UsageOk
      [] d = "ok" /\ ep = "replay_workflow" -> ReplayOk
      [] d = "ok" /\ ep = "get_workflow" -> WorkflowOk
      [] OTHER -> JStr(d)

\* What leaves an endpoint method.
EpReturn(v) == [kind |-> "return", value |-> v, exc |-> NoExc]
EpRaise(e) == [kind |-> "raise", value |-> JNull, exc |-> e]
NoEp == [kind |-> "none", value |-> JNull, exc |-> NoExc]

\* The endpoint method after _request ended with r: an exception of
\* _request leaves the method, returned data goes through the parser, whose
\* exception leaves the method too.
EndpointReturn_Partial(ep, r) ==
    IF r.kind = "none" THEN NoEp
    ELSE IF r.kind = "raise" THEN [kind |-> "return", value |-> JNull, exc |-> r.exc]
    ELSE LET v == ParseData(ep, Payload(ep, r.value))
         IN  IF IsErr(v) THEN EpRaise(ForeignError(v.v, "from_dict")) ELSE EpReturn(v)

\* An endpoint that wraps the parser's exception in the client's error type.
EndpointReturn_Classified(ep, r) ==
    IF r.kind = "none" THEN NoEp
    ELSE IF r.kind = "raise" THEN EpRaise(r.exc)
    ELSE LET v == ParseData(ep, Payload(ep, r.value))
         IN  IF IsErr(v) THEN EpRaise(UnbrowserError("INVALID_RESPONSE", "from_dict"))
             ELSE EpReturn(v)

EndpointReturn(ep, r) ==
    IF r.kind = "none" THEN NoEp
    ELSE IF r.kind = "raise" THEN EpRaise(r.exc)
    ELSE LET v == ParseData(ep, Payload(ep, r.value))
         IN  IF IsErr(v) THEN EpRaise(ForeignError(v.v, "from_dict")) ELSE EpReturn(v)

\* What the attempts of the endpoint calls meet.
DataTokens == {"ok", "partial"}

ApiOutcomes ==
    {[kind |-> "exc", cls |-> c, status |-> 0, header |-> NoHeader, body |-> NoBody] :
        c \in {"Timeout", "ConnectionError"}}
      \cup {[kind |-> "resp", cls |-> "", status |-> 200, header |-> NoHeader,
             body |-> [shape |-> "dict", success |-> "true", error |-> NoError, data |-> d]] :
              d \in DataTokens \cup {Absent}}
      \cup {[kind |-> "resp", cls |-> "", status |-> 500, header |-> NoHeader,
             body |-> [shape |-> "dict", success |-> "false", error |-> e, data |-> d]] :
              e \in {ErrUrl, ErrInternal}, d \in {Absent, "ok"}}
      \cup {[kind |-> "resp", cls |-> "", status |-> 401, header |-> NoHeader,
             body |-> [shape |-> "dict", success |-> "true", error |-> NoError, data |-> "ok"]],
            [kind |-> "resp", cls |-> "", status |-> 200, header |-> NoHeader, body |-> NoBody]}

\* What the GET of health() meets: an exception, or a response whose body
\* is a flat JSON object, another JSON value, or not JSON.
HealthJson == Dict(<<"status", "version", "uptime">>, <<JStr("ok"), JStr("1.0"), JInt(5)>>)

HealthOutcomes ==
    {[kind |-> "exc", cls |-> c, status |-> 0, header |-> NoHeader,
      body |-> [shape |-> "notjson", json |-> JNull]] : c \in {"Timeout", "ConnectionError"}}
      \cup {[kind |-> "resp", cls |-> "", status |-> s, header |-> NoHeader,
             body |-> [shape |-> "json", json |-> j]] :
              s \in {200, 401, 500, 503},
              j \in {HealthJson, Dict(<<"success">>, <<JBool(FALSE)>>), JNull}}
      \cup {[kind |-> "resp", cls |-> "", status |-> s, header |-> NoHeader,
             body |-> [shape |-> "notjson", json |-> JNull]] : s \in {200, 503}}

\* health() with the envelope check of _request applied to the answer.
HealthReturn_Envelope(o) ==
    IF o.kind = "exc" THEN EpRaise(ForeignError(o.cls, StrOf(o.cls)))
    ELSE IF o.body.shape = "notjson"
    THEN EpRaise(ForeignError("JSONDecodeError", "Expecting value"))
    ELSE IF ~Truthy(GetD(o.body.json, "success", JBool(FALSE)))
    THEN EpRaise(UnbrowserError("UNKNOWN_ERROR", "Unknown error"))
    ELSE EpReturn(Get(o.body.json, "data"))

\* health(): requests.get, then response.json().
HealthReturn(o) ==
    IF o.kind = "exc" THEN EpRaise(ForeignError(o.cls, StrOf(o.cls)))
    ELSE IF o.body.shape = "notjson"
    THEN EpRaise(ForeignError("JSONDecodeError", "Expecting value"))
    ELSE EpReturn(o.body.json)

\* A physical network call: who sent it, and what it carried.
Wire(via, verb, url, headers, tmo) ==
    [via |-> via, verb |-> verb, url |-> url, headers |-> headers, timeout |-> tmo]
NoWire == Wire("none", "", << >>, NoHeaders, 0)

\* The with statement: not entered, inside the body, or left; the exception
\* that left the body and the exception that left the statement.
NoScope == [state |-> "none", raised |-> NoExc, propagated |-> NoExc]
BodyError == ForeignError("RuntimeError", "raised in the body")

\* ---------------------------------------------------------------- state
VARIABLES
    ctor,           \* how UnbrowserClient(...) ended: not called, returned, raised; its key
    api_key,        \* self.api_key
    base_url,       \* self.base_url
    timeout,        \* self.timeout
    retry,          \* self.retry
    max_retries,    \* self.max_retries
    session,        \* self._session: its state, its headers, who closed it
    calls,          \* number of calls started on this client
    pc,             \* "idle": no call yet, "loop": inside the for loop, "done": the call ended
    endpoint,       \* the endpoint method of the current call, "" for _request itself
    method,         \* the method argument of the current call
    path,           \* the path argument of the current call
    attempts,       \* the local variable attempts
    attempt,        \* the loop variable attempt
    last_error,     \* the local variable last_error: << >> for None, else <<exception>>
    netCount,       \* physical network attempts made by the current call
    sleeps,         \* the arguments of time.sleep during the current call, in order
    last,           \* what the latest physical attempt met
    wire,           \* the latest physical network call of the current call
    result,         \* how _request ended: a returned value or a raised exception
    ep_result,      \* how the endpoint method ended
    scope,          \* the with statement around the client
    conv            \* a conversion of types.py: its input and its output

self_vars == <<api_key, base_url, timeout, retry, max_retries>>
call_vars == <<calls, pc, endpoint, method, path, attempts, attempt, last_error,
               netCount, sleeps, last, wire, result, ep_result>>

vars == <<ctor, api_key, base_url, timeout, retry, max_retries, session, calls, pc,
          endpoint, method, path, attempts, attempt, last_error, netCount, sleeps,
          last, wire, result, ep_result, scope, conv>>

\* No call was made yet.
NoCall ==
    /\ calls = 0
    /\ pc = "idle"
    /\ endpoint = ""
    /\ method = ""
    /\ path = ""
    /\ attempts = 0
    /\ attempt = 0
    /\ last_error = << >>
    /\ netCount = 0
    /\ sleeps = << >>
    /\ last = NoOutcome
    /\ wire = NoWire
    /\ result = NoResult
    /\ ep_result = NoEp

\* Nothing was constructed yet.
NoClient ==
    /\ ctor = NoCtor
    /\ api_key = << >>
    /\ base_url = << >>
    /\ timeout = 0
    /\ retry = FALSE
    /\ max_retries = 0
    /\ session = NoSession

\* The client after construction with a valid key and the default base URL
\* and timeout; the constructor stores retry and max_retries as given.
Init ==
    /\ ctor = Constructed(ValidKey, Return(PyNone))
    /\ api_key = ValidKey
    /\ base_url = BaseUrlOf(<< >>)
    /\ timeout = DEFAULT_TIMEOUT
    /\ retry \in BOOLEAN
    /\ max_retries \in 0..MaxRetriesBound
    /\ session = OpenSession(ValidKey)
    /\ NoCall
    /\ scope = NoScope
    /\ conv = NoConv

\* UnbrowserClient(api_key=key, base_url=b, timeout=t, retry=r, max_retries=n)
Construct(key, b, t, r, n) ==
    /\ ctor.kind = "none"
    /\ ctor' = Constructed(key, KeyCheck(key))
    /\ IF ctor'.kind = "raise"
       THEN UNCHANGED <<self_vars, session>>
       ELSE /\ api_key' = key
            /\ base_url' = BaseUrlOf(b)
            /\ timeout' = t
            /\ retry' = r
            /\ max_retries' = n
            /\ session' = OpenSession(key)
    /\ UNCHANGED <<call_vars, scope, conv>>

\* A call that keeps the locals of the call before it.
Start_Stale(ep, m, p, bound) ==
    /\ ctor.kind = "return"
    /\ pc \in {"idle", "done"}
    /\ calls < bound
    /\ calls' = calls + 1
    /\ endpoint' = ep
    /\ method' = m
    /\ path' = p
    /\ attempts' = AttemptBudget(retry, max_retries)
    /\ netCount' = 0
    /\ sleeps' = << >>
    /\ last' = NoOutcome
    /\ wire' = NoWire
    /\ UNCHANGED last_error
    /\ IF 1 <= attempts'
       THEN /\ attempt' = 1
            /\ pc' = "loop"
            /\ result' = NoResult
       ELSE /\ attempt' = 0
            /\ pc' = "done"
            /\ result' = Raise(AfterLoop(last_error))
    /\ ep_result' = EndpointReturn(ep, result')
    /\ UNCHANGED <<ctor, self_vars, session, scope, conv>>

\* _request(m, p, ...) is entered, by endpoint method ep or directly: the
\* locals are initialised and the for loop starts, or ends at once when
\* range(1, attempts + 1) is empty.
Start(ep, m, p, bound) ==
    /\ ctor.kind = "return"
    /\ pc \in {"idle", "done"}
    /\ calls < bound
    /\ calls' = calls + 1
    /\ endpoint' = ep
    /\ method' = m
    /\ path' = p
    /\ attempts' = AttemptBudget(retry, max_retries)
    /\ last_error' = << >>
    /\ netCount' = 0
    /\ sleeps' = << >>
    /\ last' = NoOutcome
    /\ wire' = NoWire
    /\ IF 1 <= attempts'
       THEN /\ attempt' = 1
            /\ pc' = "loop"
            /\ result' = NoResult
       ELSE /\ attempt' = 0
            /\ pc' = "done"
            /\ result' = Raise(AfterLoop(<< >>))
    /\ ep_result' = EndpointReturn(ep, result')
    /\ UNCHANGED <<ctor, self_vars, session, scope, conv>>

\* A direct call of _request with method m.
Request(m) == Start("", m, "/v1/usage", MaxCalls)

\* A call of endpoint method ep.
Call(ep) == Start(ep, EndpointMethod(ep), EndpointPath(ep), MaxClientCalls)

\* One pass of the for loop: the physical attempt goes out through the
\* session and meets outcome o, the try body classifies it and the except
\* clauses decide between returning, raising, and sleeping before the next
\* pass. When _request ends, so does the endpoint method that called it.
Attempt(o) ==
    /\ pc = "loop"
    /\ netCount' = netCount + 1
    /\ wire' = Wire("session", method, base_url \o <<path>>, session.headers, timeout)
    /\ last' = o
    /\ LET r == InTry(o)
           h == Handle(r.exc, attempt, attempts)
           recorded == IF r.kind = "raise" /\ h.record THEN <<r.exc>> ELSE last_error
       IN  /\ last_error' = recorded
           /\ IF r.kind = "return"
              THEN /\ result' = r
                   /\ pc' = "done"
                   /\ UNCHANGED <<attempt, sleeps>>
              ELSE IF h.do = "raise"
              THEN /\ result' = Raise(h.exc)
                   /\ pc' = "done"
                   /\ UNCHANGED <<attempt, sleeps>>
              ELSE /\ sleeps' = Append(sleeps, Backoff(attempt))
                   /\ attempt' = attempt + 1
                   /\ IF attempt + 1 <= attempts
                      THEN /\ pc' = "loop"
                           /\ result' = NoResult
                      ELSE /\ pc' = "done"
                           /\ result' = Raise(AfterLoop(recorded))
    /\ ep_result' = EndpointReturn(endpoint, result')
    /\ UNCHANGED <<ctor, self_vars, session, calls, endpoint, method, path, attempts,
                   scope, conv>>

\* health(): one GET through requests.get, outside the session and outside
\* _request, and the JSON of the response is returned.
Health(o) ==
    /\ ctor.kind = "return"
    /\ pc \in {"idle", "done"}
    /\ calls < MaxClientCalls
    /\ calls' = calls + 1
    /\ endpoint' = "health"
    /\ method' = "GET"
    /\ path' = "/health"
    /\ netCount' = 1
    /\ wire' = Wire("requests", "GET", base_url \o <<"/health">>, NoHeaders, timeout)
    /\ last' = o
    /\ ep_result' = HealthReturn(o)
    /\ pc' = "done"
    /\ result' = NoResult
    /\ attempts' = 0
    /\ attempt' = 0
    /\ last_error' = << >>
    /\ sleeps' = << >>
    /\ UNCHANGED <<ctor, self_vars, session, scope, conv>>

\* close(), on a session that is open
Close ==
    /\ ctor.kind = "return"
    /\ pc \in {"idle", "done"}
    /\ session.state = "open"
    /\ session' = Closed(session, "user")
    /\ UNCHANGED <<ctor, self_vars, call_vars, scope, conv>>

\* __enter__
EnterWith ==
    /\ ctor.kind = "return"
    /\ pc \in {"idle", "done"}
    /\ scope.state = "none"
    /\ scope' = [scope EXCEPT !.state = "in"]
    /\ UNCHANGED <<ctor, self_vars, session, call_vars, conv>>

\* How the body of the with statement can end: normally, with an exception
\* of its own, or with the exception of the endpoint call it just made.
BodyEnds == {NoExc, BodyError} \cup (IF ep_result.kind = "raise" THEN {ep_result.exc} ELSE {})

\* __exit__ that closes the session only after a body without exception.
ExitWith_LeakOnError(e) ==
    /\ scope.state = "in"
    /\ pc \in {"idle", "done"}
    /\ session' = IF e = NoExc THEN Closed(session, "exit") ELSE session
    /\ scope' = [state |-> "exited", raised |-> e, propagated |-> e]
    /\ UNCHANGED <<ctor, self_vars, call_vars, conv>>

\* __exit__(*args) after the body ended with e: close() is called, and the
\* None it returns lets the exception go on.
ExitWith(e) ==
    /\ scope.state = "in"
    /\ pc \in {"idle", "done"}
    /\ session' = Closed(session, "exit")
    /\ scope' = [state |-> "exited", raised |-> e, propagated |-> e]
    /\ UNCHANGED <<ctor, self_vars, call_vars, conv>>

Next ==
    \/ \E m \in Methods : Request(m)
    \/ \E o \in Outcomes : Attempt(o)

Spec == Init /\ [][Next]_vars

\* ---- The client from its construction on: endpoint calls, health, close
\* and the with statement.
InitClient ==
    /\ NoClient
    /\ NoCall
    /\ scope = NoScope
    /\ conv = NoConv

NextClient ==
    \/ \E a \in CtorArgs : Construct(a.key, a.base_url, a.timeout, a.retry, a.max_retries)
    \/ \E ep \in Endpoints : Call(ep)
    \/ \E o \in ApiOutcomes : Attempt(o)
    \/ \E o \in HealthOutcomes : Health(o)
    \/ Close
    \/ EnterWith
    \/ \E e \in BodyEnds : ExitWith(e)

\* The outcomes met under the fair specification: every exception, and the
\* responses without a header or with one int() rejects, whose body is not
\* an envelope or is an envelope with no error, a retried one or one not
\* retried.
FairOutcomes ==
    {o \in Outcomes :
        o.kind = "resp" =>
            /\ o.header \in {NoHeader, [present |-> TRUE, value |-> <<"a">>]}
            /\ o.body.shape = "dict" => o.body.error \in {NoError, ErrInternal, ErrUrl}}

NextFair == (\E m \in Methods : Request(m)) \/ (\E o \in FairOutcomes : Attempt(o))

\* Every pass of the loop ends: the session call is made with a timeout and
\* time.sleep returns, so a call that is in the loop makes its next attempt.
SpecFair == Init /\ [][NextFair]_vars /\ WF_vars(\E o \in FairOutcomes : Attempt(o))

SpecClient == InitClient /\ [][NextClient]_vars

\* ---- The conversions of types.py on bounded inputs.
InitMap ==
    /\ NoClient
    /\ NoCall
    /\ scope = NoScope
    /\ \E op \in ParseOps \cup {"body"} :
          conv \in {[op |-> op, input |-> x, output |-> JNull, done |-> FALSE] :
                      x \in MapInputs(op)}

\* The request body is built from the arguments.
Serialize ==
    /\ ~conv.done
    /\ conv.op = "body"
    /\ conv' = [conv EXCEPT !.output = Convert(conv.op, conv.input), !.done = TRUE]
    /\ UNCHANGED <<ctor, self_vars, session, call_vars, scope>>

\* from_dict is applied to the data of a response.
Parse ==
    /\ ~conv.done
    /\ conv.op \in ParseOps
    /\ conv' = [conv EXCEPT !.output = Convert(conv.op, conv.input), !.done = TRUE]
    /\ UNCHANGED <<ctor, self_vars, session, call_vars, scope>>

NextMap == Serialize \/ Parse

SpecMap == InitMap /\ [][NextMap]_vars

TypeOK ==
    /\ retry \in BOOLEAN
    /\ max_retries \in 0..MaxRetriesBound
    /\ pc \in {"idle", "loop", "done"}
    /\ netCount \in 0..(MaxRetriesBound + 1)

\* ------------------------------------------------------------- claims
Done == pc = "done"
IsResp(o) == o.kind = "resp"
HasStatus(o, st) == o.kind = "resp" /\ o.status = st

\* A call that has ended slept only between its attempts, a call still in
\* the loop has slept once after each attempt made so far.
SleptOnlyBetween == Len(sleeps) = IF pc = "loop" THEN netCount ELSE netCount - 1

\* C1: an attempt answered with 401 ends the call at once with
\* AuthenticationError (code UNAUTHORIZED), whatever the body and the retry
\* configuration; no sleep follows it, so a call whose first response is 401
\* makes exactly one attempt and never sleeps.
C1_Unauthorized ==
    HasStatus(last, 401) =>
        /\ Done
        /\ result.kind = "raise"
        /\ result.exc.type = "AuthenticationError"
        /\ result.exc.code = "UNAUTHORIZED"
        /\ Len(sleeps) = netCount - 1
        /\ (netCount = 1 => sleeps = << >>)

\* A client with retries enabled and budget left answers 401 on the first
\* attempt, under a body that is a success envelope.
C1_Witness ==
    /\ retry /\ max_retries = DEFAULT_MAX_RETRIES
    /\ HasStatus(last, 401) /\ last.body.success = "true"
    /\ netCount = 1 /\ Done

\* C2: an attempt answered with 429 ends the call at once with
\* RateLimitError, without retry or sleep; retry_after is the integer value
\* of the Retry-After header when the header is present and None when it is
\* absent, whatever the body; no other error carries a retry_after.
C2_RateLimited ==
    /\ HasStatus(last, 429) =>
        /\ Done
        /\ result.kind = "raise"
        /\ result.exc.type = "RateLimitError"
        /\ result.exc.code = "RATE_LIMITED"
        /\ Len(sleeps) = netCount - 1
        /\ (~last.header.present => result.exc.retry_after = NoneInt)
        /\ (last.header.present /\ last.header.value = <<"0">>
               => result.exc.retry_after = <<0>>)
        /\ (last.header.present /\ last.header.value = <<"1", "2">>
               => result.exc.retry_after = <<12>>)
    /\ (result.kind = "raise" /\ result.exc.type # "RateLimitError"
           => ~result.exc.has_retry_after)

\* C3: a failure envelope (under a status other than 429/401/403) whose code
\* is INVALID_REQUEST, INVALID_URL or FORBIDDEN ends the call at once with an
\* UnbrowserError carrying the code and the message of the envelope; no sleep
\* follows it, so a call whose first response is such an envelope makes
\* exactly one attempt.
NoRetryEnvelope(o) ==
    /\ IsResp(o) /\ o.status \notin {429, 401, 403}
    /\ o.body.shape = "dict" /\ o.body.success = "false"
    /\ o.body.error.shape = "dict"
    /\ o.body.error.code \in {"INVALID_REQUEST", "INVALID_URL", "FORBIDDEN"}

C3_DoNotRetryCodes ==
    NoRetryEnvelope(last) =>
        /\ Done
        /\ result.kind = "raise"
        /\ result.exc.type = "UnbrowserError"
        /\ result.exc.code = last.body.error.code
        /\ (last.body.error.message # Absent
               => result.exc.message = last.body.error.message)
        /\ Len(sleeps) = netCount - 1
        /\ (netCount = 1 => sleeps = << >>)

\* The first response of a call with retries enabled is an INVALID_URL
\* envelope under status 500.
C3_Witness ==
    /\ retry /\ max_retries = DEFAULT_MAX_RETRIES
    /\ NoRetryEnvelope(last) /\ last.status = 500
    /\ last.body.error.code = "INVALID_URL" /\ last.body.error.message = "m1"
    /\ netCount = 1 /\ Done

\* C4: with retry enabled and max_retries >= 2, an attempt that fails with a
\* connection failure that is not a timeout is retried while attempts remain,
\* and when the budget is used up the error raised has code TIMEOUT.
C4_ConnectionRetried ==
    (retry /\ max_retries >= 2 /\ last.kind = "exc" /\ last.cls = "ConnectionError") =>
        IF netCount < max_retries
        THEN pc = "loop"
        ELSE /\ Done
             /\ netCount = max_retries
             /\ result.kind = "raise"
             /\ result.exc.code = "TIMEOUT"

\* A response the client classifies as success: an envelope with success
\* true under a status other than 429/401/403.
SuccessEnvelope(o) ==
    /\ IsResp(o) /\ o.status \notin {429, 401, 403}
    /\ o.body.shape = "dict" /\ o.body.success = "true"

TimedOut(o) == o.kind = "exc" /\ o.cls \in {"Timeout", "ConnectTimeout"}

\* C5: with retry enabled and max_retries = N >= 1, an attempt that times out
\* is followed by a sleep and another attempt while fewer than N attempts
\* were made; the N-th timeout ends the call with UnbrowserError TIMEOUT after
\* exactly N attempts and N-1 sleeps; a success after earlier timeouts
\* returns its data.
C5_TimeoutRetried ==
    /\ (retry /\ TimedOut(last)) =>
          IF netCount < max_retries
          THEN pc = "loop" /\ Len(sleeps) = netCount
          ELSE /\ Done
               /\ netCount = max_retries
               /\ Len(sleeps) = max_retries - 1
               /\ result.kind = "raise"
               /\ result.exc.type = "UnbrowserError"
               /\ result.exc.code = "TIMEOUT"
    /\ (retry /\ SuccessEnvelope(last)) =>
          /\ Done
          /\ result.kind = "return"
          /\ result.value = IF last.body.data = Absent THEN PyNone ELSE last.body.data

\* The default budget of three attempts is used up by timeouts.
C5_Witness ==
    /\ retry /\ max_retries = DEFAULT_MAX_RETRIES
    /\ TimedOut(last) /\ Done
    /\ netCount = 3 /\ sleeps = <<2, 4>>
    /\ result.kind = "raise" /\ result.exc.code = "TIMEOUT"

\* A failure envelope that carries a code outside the do-not-retry set, or no
\* code at all (the code then defaults to UNKNOWN_ERROR).
RetryableEnvelope(o) ==
    /\ IsResp(o) /\ o.status \notin {429, 401, 403}
    /\ o.body.shape = "dict" /\ o.body.success # "true"
    /\ o.body.error.shape # "null"
    /\ o.body.error.code \notin {"INVALID_REQUEST", "INVALID_URL", "FORBIDDEN"}

\* C6: a failure envelope with a code outside the do-not-retry set is
\* followed by a sleep and another attempt while attempts remain; at the last
\* attempt of the budget it is raised as an UnbrowserError carrying the code
\* and message of that last envelope, after exactly `attempts` attempts.
C6_RetryableEnvelope ==
    RetryableEnvelope(last) =>
        IF netCount < attempts
        THEN pc = "loop" /\ Len(sleeps) = netCount
        ELSE /\ Done
             /\ netCount = attempts
             /\ result.kind = "raise"
             /\ result.exc.type = "UnbrowserError"
             /\ result.exc.code = IF last.body.error.code = Absent
                                  THEN "UNKNOWN_ERROR" ELSE last.body.error.code
             /\ result.exc.message = IF last.body.error.message = Absent
                                     THEN "Unknown error" ELSE last.body.error.message

\* The default budget of three attempts is used up; the last attempt met an
\* INTERNAL_ERROR envelope and that envelope's code and message are raised.
C6_Witness ==
    /\ retry /\ max_retries = DEFAULT_MAX_RETRIES /\ netCount = 3 /\ Done
    /\ RetryableEnvelope(last)
    /\ last.body.error.code = "INTERNAL_ERROR" /\ last.body.error.message = "m1"
    /\ result.kind = "raise" /\ result.exc.code = "INTERNAL_ERROR"
    /\ result.exc.message = "m1"

\* C7: the number of physical attempts of a call never exceeds max_retries
\* when retry is enabled; with retry disabled the call ends with its first
\* attempt whatever max_retries is, and never sleeps.
C7_AttemptBudget ==
    /\ retry => netCount <= max_retries
    /\ ~retry =>
        /\ netCount <= 1
        /\ sleeps = << >>
        /\ (netCount = 1 => Done)
        /\ (Done => netCount = 1)
        /\ (Done /\ ~SuccessEnvelope(last) => result.kind = "raise")

\* Retry is disabled on a client with max_retries 4; the first attempt timed
\* out and the call ended with the timeout error.
C7_Witness ==
    /\ ~retry /\ max_retries = MaxRetriesBound
    /\ Done /\ netCount = 1 /\ TimedOut(last)
    /\ result.kind = "raise" /\ result.exc.code = "TIMEOUT"

\* 2, 4, 8, ...: the delay after the k-th attempt.
ExpectedDelays == <<2, 4, 8, 16, 32, 64, 128, 256>>

\* C8: the k-th sleep of a call lasts 2^k seconds, whatever failure caused
\* the retry; a sleep happens only after an attempt that is retried, so none
\* precedes the first attempt and none follows the last.
C8_ExponentialBackoff ==
    /\ \A k \in 1..Len(sleeps) : sleeps[k] = ExpectedDelays[k]
    /\ SleptOnlyBetween \/ netCount = 0
    /\ netCount = 0 => sleeps = << >>

\* Four attempts with three sleeps of 2, 4 and 8 seconds; the final attempt
\* met a retryable envelope.
C8_Witness ==
    /\ Done /\ netCount = 4 /\ sleeps = <<2, 4, 8>>
    /\ RetryableEnvelope(last)

\* C9: an attempt answered with 403 ends the call at once with an
\* UnbrowserError whose code is FORBIDDEN, whatever the body and the retry
\* configuration; no sleep follows it.
C9_Forbidden ==
    HasStatus(last, 403) =>
        /\ Done
        /\ result.kind = "raise"
        /\ result.exc.type = "UnbrowserError"
        /\ result.exc.code = "FORBIDDEN"
        /\ Len(sleeps) = netCount - 1
        /\ (netCount = 1 => sleeps = << >>)

\* The first response is a 403 whose body is a failure envelope with another
\* code.
C9_Witness ==
    /\ retry /\ max_retries = DEFAULT_MAX_RETRIES
    /\ HasStatus(last, 403) /\ last.body.error.code = "INTERNAL_ERROR"
    /\ netCount = 1 /\ Done
    /\ result.exc.code = "FORBIDDEN"

\* C10: a call never ends with the fallback UnbrowserError UNKNOWN_ERROR
\* 'Request failed', and never ends without a network attempt.
C10_FallbackUnreachable ==
    Done =>
        /\ netCount >= 1
        /\ ~(/\ result.kind = "raise"
             /\ result.exc.code = "UNKNOWN_ERROR"
             /\ result.exc.message = "Request failed")

\* C13: every exception that leaves _request is an UnbrowserError or one of
\* its subclasses, and a call returns normally only on a success envelope.
C13_TypedErrors ==
    /\ (Done /\ result.kind = "raise") => result.exc.type \in UnbrowserTypes
    /\ (Done /\ result.kind = "return") => SuccessEnvelope(last)

\* C14: a 429 whose Retry-After header is present but not an integer still
\* ends the call with RateLimitError, with retry_after None, and no parse
\* error is raised.
C14_SilentDrop ==
    (HasStatus(last, 429) /\ last.header.present /\ last.header.value = <<"a">>) =>
        /\ Done
        /\ result.kind = "raise"
        /\ result.exc.type = "RateLimitError"
        /\ result.exc.retry_after = NoneInt

\* C11: construction succeeds exactly for the keys that are non-empty and
\* start with 'ub_'; for every other key it raises ValidationError, no
\* attribute is set, no session exists and no network call was or will be
\* made; a network call is only ever made by a constructed client.
UbPrefix == <<"u", "b", "_">>

C12_NoPartialResult ==
    (Done /\ endpoint \in Endpoints) =>
        /\ ep_result.kind \in {"return", "raise"}
        /\ ep_result.kind = "return" =>
              /\ SuccessEnvelope(last)
              /\ result.kind = "return"
              /\ ep_result.value = ParseData(endpoint, Payload(endpoint, DataOf(last.body)))
              /\ ~IsErr(ep_result.value)
        /\ ~SuccessEnvelope(last) => ep_result.kind = "raise"
        /\ ep_result.kind = "raise" => ep_result.value = JNull

\* The last attempt of a batch call met a failure envelope that carries
\* well formed data next to its error; the call raised.
C12_Witness ==
    /\ Done /\ endpoint = "batch" /\ netCount = 2
    /\ IsResp(last) /\ last.body.success = "false" /\ last.body.data = "ok"
    /\ ep_result.kind = "raise" /\ ep_result.exc.code = "INTERNAL_ERROR"

\* No null at any nesting level of a JSON value.
RECURSIVE NoNulls(_)
NoNulls(j) ==
    CASE j.t = "null" -> FALSE
      [] j.t = "list" -> \A i \in 1..Len(j.v) : NoNulls(j.v[i])
      [] j.t = "obj" -> \A k \in DOMAIN j.v : NoNulls(j.v[k])
      [] OTHER -> TRUE

\* C15: the body built for browse, fetch and batch holds no null at any
\* nesting level, for every options and session value, cookies with an unset
\* domain included; the keys 'options' and 'session' are in the body exactly
\* when the caller supplied them.
C15_NoNullsSent ==
    (conv.done /\ conv.op = "body") =>
        /\ NoNulls(conv.output)
        /\ ("options" \in DOMAIN conv.output.v) <=> (conv.input.options # JNull)
        /\ ("session" \in DOMAIN conv.output.v) <=> (conv.input.session # JNull)

\* The enumerated fields of the input x of a parser: the closed set, the
\* value received, and whether the result type declares the field optional.
Slot(values, val, optional) == [values |-> values, val |-> val, optional |-> optional]

ListOf(j) == IF j.t = "list" THEN j.v ELSE << >>

StepSlots(x) ==
    {Slot(CostTierValues, Sub(x, "tier"), FALSE),
     Slot(ConfidenceRatingValues, Sub(x, "confidence"), FALSE)}

PlanSlots(x) ==
    {Slot(CostTierValues, Sub(x, "tier"), FALSE)}
      \cup UNION {StepSlots(ListOf(Sub(x, "steps"))[i]) :
                    i \in 1..Len(ListOf(Sub(x, "steps")))}

TypedSlots(op, x) ==
    CASE op = "execution_step" -> StepSlots(x)
      [] op = "plan" ->
            PlanSlots(x) \cup (IF Truthy(Get(x, "fallbackPlan"))
                               THEN PlanSlots(Sub(x, "fallbackPlan")) ELSE {})
      [] op = "confidence_level" ->
            {Slot(ConfidenceRatingValues, Sub(x, "overall"), FALSE),
             Slot(DomainFamiliarityValues,
                  Sub(Sub(x, "factors"), "domainFamiliarity"), FALSE)}
      [] op = "workflow_step" ->
            {Slot(ImportanceValues, Sub(x, "importance"), FALSE),
             Slot(CostTierValues, Get(x, "tier"), TRUE)}
      [] op = "replay" ->
            {Slot(CostTierValues, Get(ListOf(Sub(x, "results"))[i], "tier"), TRUE) :
                i \in 1..Len(ListOf(Sub(x, "results")))}
      [] OTHER -> {}

\* The tier of the metadata of a browse result.
MetadataSlots(op, x) ==
    IF op = "browse" /\ x # JNull
    THEN {Slot(CostTierValues, Sub(Sub(x, "metadata"), "tier"), FALSE)}
    ELSE {}

\* A value was received in the field and it is not in the closed set.
Unrecognized(s) ==
    /\ ~IsErr(s.val) /\ s.val # JNull
    /\ ~(s.val.t = "str" /\ s.val.v \in s.values)

EnumOps == {"browse", "execution_step", "plan", "confidence_level", "workflow_step", "replay"}

EnumValues(cls) ==
    CASE cls = "CostTier" -> CostTierValues
      [] cls = "ConfidenceRating" -> ConfidenceRatingValues
      [] cls = "Importance" -> ImportanceValues
      [] cls = "DomainFamiliarity" -> DomainFamiliarityValues
      [] cls = "ContentType" -> ContentTypeValues
      [] cls = "VerificationMode" -> VerificationModeValues

\* Every enum member held anywhere in a parsed value belongs to its class.
RECURSIVE EnumsAreMembers(_)
EnumsAreMembers(j) ==
    CASE j.t = "enum" -> j.v \in EnumValues(j.cls)
      [] j.t = "list" -> \A i \in 1..Len(j.v) : EnumsAreMembers(j.v[i])
      [] j.t \in {"obj", "inst"} -> \A k \in DOMAIN j.v : EnumsAreMembers(j.v[k])
      [] OTHER -> TRUE

\* C16 as stated: an unrecognized value in any enumerated field of a
\* response, the tier of a browse result's metadata included, makes parsing
\* fail.
C16_AllEnumsValidated ==
    (conv.done /\ conv.op \in EnumOps) =>
        ((\E s \in TypedSlots(conv.op, conv.input) \cup MetadataSlots(conv.op, conv.input) :
              Unrecognized(s))
            => IsErr(conv.output))

\* C16 as amended: the fields the result types declare as enumerations are
\* validated: an unrecognized value in a required one, or a non-empty
\* unrecognized value in an optional one, makes parsing fail; an empty
\* optional tier parses to None; no parsed result holds a non-member in an
\* enumeration field. The tier of a browse result's metadata is a plain
\* string, kept as received.
C16_DeclaredEnumsValidated ==
    /\ (conv.done /\ conv.op \in EnumOps) =>
          /\ (\E s \in TypedSlots(conv.op, conv.input) :
                 Unrecognized(s) /\ (s.optional => Truthy(s.val)))
               => IsErr(conv.output)
          /\ ~IsErr(conv.output) => EnumsAreMembers(conv.output)
    /\ (conv.done /\ conv.op = "workflow_step" /\ ~IsErr(conv.output)) =>
          /\ ~Truthy(Get(conv.input, "tier")) => Attr(conv.output, "tier") = JNull
          /\ Truthy(Get(conv.input, "tier")) =>
                Attr(conv.output, "tier") = EnumMember("CostTier", Sub(conv.input, "tier").v)
          /\ Attr(conv.output, "importance")
                = EnumMember("Importance", Sub(conv.input, "importance").v)
    /\ (conv.done /\ conv.op = "browse" /\ conv.input # JNull
          /\ DOMAIN BrowseOk.v \subseteq DOMAIN conv.input.v) =>
          /\ ~IsErr(conv.output)
          /\ Attr(Attr(conv.output, "metadata"), "tier")
                = Sub(Sub(conv.input, "metadata"), "tier")

\* A workflow step with a recognized importance and the tier 'warp' was
\* refused with ValueError.
C16_Witness ==
    /\ conv.done /\ conv.op = "workflow_step"
    /\ Sub(conv.input, "importance") = JStr("critical")
    /\ Sub(conv.input, "tier") = JStr("warp")
    /\ conv.output = JErr("ValueError")

\* C17: a batch response whose data.results has n entries, successful and
\* failed in any mix, parses to a BatchResult with n items in the same
\* order; each item keeps its url and success flag, holds a parsed
\* BrowseResult when the entry carries data and None otherwise, and keeps the
\* entry's error; a failed entry never makes the parse raise.
C17_BatchPreserved ==
    (conv.done /\ conv.op = "batch" /\ conv.input # JNull
       /\ "totalTime" \in DOMAIN conv.input.v) =>
        LET in == Sub(conv.input, "results").v
        IN  /\ ~IsErr(conv.output)
            /\ conv.output.cls = "BatchResult"
            /\ Attr(conv.output, "total_time") = Sub(conv.input, "totalTime")
            /\ Len(Attr(conv.output, "results").v) = Len(in)
            /\ \A i \in 1..Len(in) :
                 LET item == Attr(conv.output, "results").v[i]
                 IN  /\ Attr(item, "url") = Sub(in[i], "url")
                     /\ Attr(item, "success") = Sub(in[i], "success")
                     /\ Attr(item, "error") = Get(in[i], "error")
                     /\ IF Truthy(Get(in[i], "data"))
                        THEN /\ Attr(item, "data").cls = "BrowseResult"
                             /\ Attr(Attr(item, "data"), "url") = Sub(Sub(in[i], "data"), "url")
                             /\ Attr(Attr(Attr(item, "data"), "content"), "markdown")
                                  = Sub(Sub(Sub(in[i], "data"), "content"), "markdown")
                        ELSE Attr(item, "data") = JNull

\* Three entries were parsed: a failed one without data, a successful one,
\* and a failed one whose data is null.
C17_Witness ==
    /\ conv.done /\ conv.op = "batch" /\ ~IsErr(conv.output)
    /\ Len(Attr(conv.output, "results").v) = 3
    /\ Attr(Attr(conv.output, "results").v[1], "url") = JStr("bad1")
    /\ Attr(Attr(conv.output, "results").v[2], "url") = JStr("ok1")
    /\ Attr(Attr(conv.output, "results").v[3], "url") = JStr("bad2")
    /\ Attr(Attr(conv.output, "results").v[1], "data") = JNull
    /\ Attr(Attr(conv.output, "results").v[1], "error") = ErrorJson

\* The number of close() calls __exit__ made on the session.
ExitCloses == Cardinality({i \in 1..Len(session.closers) : session.closers[i] = "exit"})

\* C18: once the with statement is left, the session is closed and __exit__
\* has called close() exactly once, whether the body ended normally, raised
\* an exception of its own or let the exception of an endpoint call through;
\* the exception that left the body leaves the statement. Before that,
\* __exit__ has closed nothing.
C18_ScopedRelease ==
    /\ scope.state = "exited" =>
          /\ session.state = "closed"
          /\ ExitCloses = 1
          /\ scope.propagated = scope.raised
    /\ scope.state \in {"none", "in"} => ExitCloses = 0

\* A call made in the body ended with AuthenticationError, which left the
\* body and the statement, and the session was closed once.
C18_Witness ==
    /\ scope.state = "exited"
    /\ ep_result.kind = "raise" /\ ep_result.exc.type = "AuthenticationError"
    /\ scope.raised = ep_result.exc /\ scope.propagated = ep_result.exc
    /\ session.closers = <<"exit">>

\* How a call that made k >= 1 attempts, the last of which met o, ends
\* under a budget of n attempts.
EndOf(o, k, n) ==
    LET r == InTry(o)
        h == Handle(r.exc, k, n)
    IN  IF r.kind = "return" THEN r
        ELSE IF h.do = "raise" THEN Raise(h.exc)
        ELSE Raise(r.exc)

\* The configuration is left alone by every step of a call.
ConfigKept ==
    /\ UNCHANGED <<ctor, api_key, base_url, timeout, retry, max_retries>>
    /\ session' = session

\* A step that starts a call starts it afresh.
StartsAfresh ==
    (calls' = calls + 1) =>
        /\ attempts' = (IF retry THEN max_retries ELSE 1)
        /\ last_error' = << >>
        /\ netCount' = 0
        /\ sleeps' = << >>
        /\ attempt' = (IF attempts' >= 1 THEN 1 ELSE 0)
        /\ (attempts' >= 1 => pc' = "loop" /\ result' = NoResult)

\* The locals of a call tell of this call only.
OwnLocals ==
    /\ calls >= 1 => attempts = (IF retry THEN max_retries ELSE 1)
    /\ pc = "loop" => attempt = netCount + 1 /\ Len(sleeps) = netCount
    /\ netCount <= attempts
    /\ last_error # << >> => netCount >= 1
    /\ (Done /\ netCount = 0) =>
          result = Raise(UnbrowserError("UNKNOWN_ERROR", "Request failed"))
    /\ (Done /\ netCount >= 1) => result = EndOf(last, netCount, attempts)

\* C19: _request leaves api_key, base_url, timeout, retry, max_retries and
\* the session with its headers unchanged; every call, whatever calls came
\* before it, starts at attempt 1 with the full budget and no recorded
\* error, and the way it ends is determined by the configuration, the number
\* of attempts it made and the response its last attempt met.
C19_NoStateAcrossCalls == [][ConfigKept /\ StartsAfresh]_vars /\ []OwnLocals

\* The second call on a client used up the default budget on timeouts, with
\* the sleeps of a first call.
C19_Witness ==
    /\ calls = 2 /\ retry /\ max_retries = DEFAULT_MAX_RETRIES
    /\ Done /\ netCount = 3 /\ sleeps = <<2, 4>> /\ TimedOut(last)
    /\ result.exc.code = "TIMEOUT"

\* C20: a network call carries the Authorization header 'Bearer <key>' with
\* the key validated at construction, Content-Type application/json and the
\* client's User-Agent exactly when it is sent through the session by
\* _request; health() alone sends outside the session: one GET to
\* <base_url>/health without these headers, no retry and no sleep, and the
\* JSON of the response is returned as received, whatever the status and
\* whether or not it looks like an envelope.
C20_AuthOnlyViaExecutor ==
    /\ (wire.headers.authorization # << >>) <=> (wire.via = "session")
    /\ wire.via = "session" =>
          /\ endpoint \in Endpoints
          /\ wire.headers.authorization = <<"Bearer ">> \o ctor.key
          /\ StartsWith(ctor.key, UbPrefix)
          /\ wire.headers.content_type = "application/json"
          /\ wire.headers.user_agent = USER_AGENT
          /\ wire.verb = EndpointMethod(endpoint)
          /\ wire.url = base_url \o <<EndpointPath(endpoint)>>
    /\ (endpoint \in Endpoints /\ netCount >= 1) => wire.via = "session"
    /\ (endpoint = "health") <=> (wire.via = "requests")
    /\ endpoint = "health" =>
          /\ wire = Wire("requests", "GET", base_url \o <<"/health">>, NoHeaders, timeout)
          /\ Done /\ netCount = 1 /\ sleeps = << >>
          /\ (IsResp(last) /\ last.body.shape = "json") => ep_result = EpReturn(last.body.json)
          /\ ~(IsResp(last) /\ last.body.shape = "json") => ep_result.kind = "raise"

\* health() on a client with another base URL was answered with status 401
\* and a JSON object that says success false; that object was returned.
C20_Witness ==
    /\ endpoint = "health" /\ HasStatus(last, 401)
    /\ last.body.json = Dict(<<"success">>, <<JBool(FALSE)>>)
    /\ ep_result = EpReturn(last.body.json)
    /\ wire.url = <<"https://h", "/health">>
    /\ wire.headers.authorization = << >>

\* An options object rebuilt from an emitted dictionary: the value of every
\* key that is there, the default of the field for every key that is not.
MemberOr(cls, d, k, default) ==
    IF k \in DOMAIN d.v THEN EnumMember(cls, d.v[k].v) ELSE default

OptionsFromDict(d) ==
    BrowseOptions(MemberOr("ContentType", d, "contentType",
                           EnumMember("ContentType", "markdown")),
                  GetD(d, "waitForSelector", JNull),
                  GetD(d, "scrollToLoad", JBool(FALSE)),
                  GetD(d, "maxChars", JNull),
                  GetD(d, "includeTables", JBool(TRUE)),
                  GetD(d, "maxLatencyMs", JNull),
                  MemberOr("CostTier", d, "maxCostTier", JNull),
                  IF "verify" \in DOMAIN d.v
                  THEN VerifyOptions(Sub(Sub(d, "verify"), "enabled"),
                                     MemberOr("VerificationMode", Sub(d, "verify"), "mode",
                                              JNull))
                  ELSE JNull)

\* The options of a body that was built with options.
BuiltWithOptions == conv.done /\ conv.op = "body" /\ conv.input.options # JNull

\* C21 as stated: for every BrowseOptions value, the object rebuilt from the
\* dictionary to_dict emitted equals the original in every field.
C21_OptionsRoundTrip ==
    BuiltWithOptions => OptionsFromDict(Sub(conv.output, "options")) = conv.input.options

\* C21 as amended: the round trip reproduces every field of every
\* BrowseOptions value whose content_type is a member of ContentType and
\* whose wait_for_selector is None or a non-empty string; an empty
\* wait_for_selector comes back as None, a content_type of None as markdown,
\* and every other field is still reproduced.
C21_RoundTripOfSetFields ==
    BuiltWithOptions =>
        LET o == conv.input.options
            back == OptionsFromDict(Sub(conv.output, "options"))
        IN  /\ (Attr(o, "content_type") # JNull /\ Attr(o, "wait_for_selector") # JStr(""))
                  => back = o
            /\ Attr(o, "wait_for_selector") = JStr("")
                  => Attr(back, "wait_for_selector") = JNull
            /\ Attr(o, "content_type") = JNull
                  => Attr(back, "content_type") = EnumMember("ContentType", "markdown")
            /\ \A f \in {"scroll_to_load", "max_chars", "include_tables",
                         "max_latency_ms", "max_cost_tier", "verify"} :
                  Attr(back, f) = Attr(o, f)

\* Options with max_chars 0, include_tables False, a selector, a cost tier
\* and verify options went through the round trip unchanged.
C21_Witness ==
    /\ BuiltWithOptions
    /\ Attr(conv.input.options, "max_chars") = JInt(0)
    /\ Attr(conv.input.options, "include_tables") = JBool(FALSE)
    /\ Attr(conv.input.options, "wait_for_selector") = JStr(".main")
    /\ Attr(conv.input.options, "content_type") = EnumMember("ContentType", "html")
    /\ Attr(conv.input.options, "max_cost_tier") # JNull
    /\ Attr(conv.input.options, "verify") # JNull
    /\ "maxChars" \in DOMAIN Sub(conv.output, "options").v
    /\ OptionsFromDict(Sub(conv.output, "options")) = conv.input.options

\* The keys of a parsed payload that are null.
NullKeys(j) == IF j.t = "obj" THEN {k \in DOMAIN j.v : j.v[k] = JNull} ELSE {}

\* The keys each from_dict reads as optional (with get, not by subscript).
OptionalKeys(op) ==
    CASE op = "domain" -> {"knownPatterns", "selectorChains", "validators",
                           "paginationPatterns", "recentFailures", "successRate",
                           "domainGroup", "recommendedWaitStrategy", "shouldUseSession"}
      [] op = "workflow_info" -> {"tags", "usageCount", "successRate"}
      [] op = "workflow" -> {"tags", "usageCount", "successRate", "skillId"}
      [] op = "browse" -> {"discoveredApis"}
      [] OTHER -> {}

\* C22 as stated: a payload with an optional key set to null parses to the
\* same value as the payload without that key.
C22_NullAsAbsent ==
    (conv.done /\ conv.op \in ParseOps) =>
        \A k \in NullKeys(conv.input) \cap OptionalKeys(conv.op) :
            conv.output = Convert(conv.op, Without(conv.input, k))

\* The endpoints that hand the data of the response to a from_dict.
ParsedEndpoints == {"browse", "fetch", "preview_browse", "batch",
                    "get_domain_intelligence", "replay_workflow", "get_workflow"}

\* A success envelope whose data lacks required fields, or has no data.
UnmappableSuccess(o) == SuccessEnvelope(o) /\ o.body.data \in {"partial", Absent}

\* C23: when the attempt of a parsing endpoint meets a success envelope whose
\* data lacks a required field, or that has no data, _request has returned
\* and the endpoint raises the parser's own exception (KeyError, TypeError or
\* AttributeError, none of the client's error types); the call is over with
\* no sleep after that attempt, whatever attempts remain, and no result
\* object is returned.
C23_MappingFailureTerminal ==
    (endpoint \in ParsedEndpoints /\ UnmappableSuccess(last)) =>
        /\ Done
        /\ result.kind = "return"
        /\ ep_result.kind = "raise"
        /\ ep_result.exc.type \in {"KeyError", "TypeError", "AttributeError"}
        /\ ep_result.exc.type \notin UnbrowserTypes
        /\ ep_result.value = JNull
        /\ Len(sleeps) = netCount - 1

\* A browse call whose first attempt, of two allowed, met a success envelope
\* with incomplete data: a KeyError after one attempt and no sleep.
C23_Witness ==
    /\ Done /\ endpoint = "browse" /\ attempts = 2 /\ netCount = 1
    /\ UnmappableSuccess(last) /\ last.body.data = "partial"
    /\ result.kind = "return"
    /\ ep_result.kind = "raise" /\ ep_result.exc.type = "KeyError"
    /\ sleeps = << >>

\* A response whose body is an envelope, under a status the loop does not
\* single out.
EnvelopeDecided(o) ==
    IsResp(o) /\ o.status \notin {429, 401, 403} /\ o.body.shape = "dict"

\* C24 as stated: a response with status 429, 401 or 403 raises the error of
\* its status (RateLimitError, AuthenticationError, UnbrowserError FORBIDDEN)
\* whatever its body, a success envelope included; under every other status
\* an envelope with success true ends the call returning its data, and one
\* with success false raises: the error ends the call or is the one recorded
\* for the retry, and nothing is returned.
C24_StatusBeforeBody ==
    /\ HasStatus(last, 429) =>
          Done /\ result.kind = "raise" /\ result.exc.type = "RateLimitError"
    /\ HasStatus(last, 401) =>
          Done /\ result.kind = "raise" /\ result.exc = AuthenticationError
    /\ HasStatus(last, 403) =>
          /\ Done /\ result.kind = "raise"
          /\ result.exc.type = "UnbrowserError" /\ result.exc.code = "FORBIDDEN"
    /\ (EnvelopeDecided(last) /\ last.body.success = "true") =>
          Done /\ result = Return(DataOf(last.body))
    /\ (EnvelopeDecided(last) /\ last.body.success = "false") =>
          IF Done THEN result.kind = "raise"
          ELSE last_error # << >> /\ result.kind = "none"

\* An envelope that is not a success: the success key is false or missing.
\* The error member is an object or is missing.
FailureEnvelope(o) ==
    EnvelopeDecided(o) /\ o.body.success # "true" /\ o.body.error.shape # "null"

\* The code and the message the error of a failure envelope carries.
CodeRaised(o) ==
    IF o.body.error.shape = "absent" \/ o.body.error.code = Absent
    THEN "UNKNOWN_ERROR" ELSE o.body.error.code

MessageRaised(o) ==
    IF o.body.error.shape = "absent" \/ o.body.error.message = Absent
    THEN "Unknown error" ELSE o.body.error.message

RECURSIVE SumSeq(_)
SumSeq(q) == IF q = << >> THEN 0 ELSE q[1] + SumSeq(Tail(q))

Max(a, b) == IF a >= b THEN a ELSE b

\* An outcome the loop retries while attempts remain.
RetryableFailure(o) == TimedOut(o) \/ RetryableEnvelope(o)

\* C26 as stated, for retry enabled and N = max_retries >= 1: at most N
\* attempts and N-1 sleeps, at most 2^N - 2 seconds slept, and a call that
\* has ended slept exactly 2^N - 2 seconds if and only if all N attempts
\* failed with a retryable error.
C26_SleepBoundWithEquality ==
    (retry /\ max_retries >= 1 /\ pc # "idle") =>
        /\ netCount <= max_retries
        /\ Len(sleeps) <= max_retries - 1
        /\ SumSeq(sleeps) <= Pow2(max_retries) - 2
        /\ Done => (SumSeq(sleeps) = Pow2(max_retries) - 2
                      <=> (netCount = max_retries /\ RetryableFailure(last)))

\* The bounds of a call with an attempt budget of `attempts`.
C26_Bounds ==
    pc # "idle" =>
        /\ attempts = IF retry THEN max_retries ELSE 1
        /\ netCount <= attempts
        /\ Len(sleeps) <= Max(attempts - 1, 0)
        /\ SumSeq(sleeps) <= Max(Pow2(attempts) - 2, 0)
        /\ Done => (SumSeq(sleeps) = Max(Pow2(attempts) - 2, 0) <=> netCount = attempts)

\* C26 as amended: every call ends; with a budget of N attempts (max_retries
\* with retry enabled, 1 with retry disabled) it ends after at most N
\* attempts and at most max(N-1, 0) sleeps, the seconds slept are at most
\* max(2^N - 2, 0), and a call that has ended slept exactly that long if and
\* only if it used all N attempts, whatever the last of them met.
C26_Terminates == []C26_Bounds /\ ((pc = "loop") ~> Done)

\* The default budget: two timeouts, then a success on the third attempt;
\* six seconds were slept though the last attempt did not fail.
C26_Witness ==
    /\ retry /\ max_retries = DEFAULT_MAX_RETRIES /\ Done
    /\ netCount = 3 /\ sleeps = <<2, 4>> /\ SumSeq(sleeps) = 6
    /\ SuccessEnvelope(last) /\ result.kind = "return"

\* An outcome the loop never retries: a status decided by itself, or a
\* failure envelope with a do-not-retry code.
TerminalOutcome(o) == IsResp(o) /\ (o.status \in StatusDecided \/ NoRetryEnvelope(o))

\* C27: an attempt that meets a success envelope ends the call, which
\* returns the data of that attempt, with no sleep after it and no trace of
\* the errors recorded before; an attempt that meets a status 429, 401 or 403
\* or a do-not-retry code ends the call too, the exception of that attempt
\* is the one raised, and no sleep follows, whatever budget remains.
C27_FirstEndEndsLoop ==
    /\ SuccessEnvelope(last) =>
          /\ Done
          /\ result = Return(DataOf(last.body))
          /\ Len(sleeps) = netCount - 1
    /\ TerminalOutcome(last) =>
          /\ Done
          /\ result.kind = "raise"
          /\ result = InTry(last)
          /\ HasStatus(last, 401) => result.exc.type = "AuthenticationError"
          /\ HasStatus(last, 403) => result.exc.code = "FORBIDDEN"
          /\ NoRetryEnvelope(last) =>
                result.exc.type = "UnbrowserError" /\ result.exc.code = last.body.error.code
          /\ (last_error # << >> => result.exc # last_error[1])
          /\ Len(sleeps) = netCount - 1

\* A timeout was recorded and slept on, the second attempt of four met an
\* INVALID_URL envelope: raised at once, two attempts left unused.
C27_Witness ==
    /\ Done /\ attempts = 4 /\ netCount = 2 /\ sleeps = <<2>>
    /\ last_error # << >> /\ IsTimeout(last_error[1].type)
    /\ NoRetryEnvelope(last) /\ last.body.error.code = "INVALID_URL"
    /\ result.kind = "raise" /\ result.exc.code = "INVALID_URL"

====
